---- MODULE Spec2Model ----
(***************************************************************************)
(* Model of the Minecraft status dashboard's wire-protocol client          *)
(* (server.js): the VarInt codec, the hand-rolled Server List Ping session *)
(* (queryServerWithModpack), the UDP Query session (queryServerFullStats), *)
(* the player merge and the fallback chain of queryServerStatus, and the   *)
(* /api/status handler.                                                    *)
(*                                                                         *)
(* JavaScript numbers that can exceed 2^31-1 are kept as a pair of 16-bit  *)
(* limbs [hi, lo]; the results of the bitwise operators are int32 values.  *)
(***************************************************************************)
EXTENDS Integers, Sequences, FiniteSets, TLC

VARIABLES
  vi,     \* codec harness: the number under test, its encoding, its decoding
  tcp,    \* queryServerWithModpack: closure variables, socket, promise
  net,    \* the peer of the TCP session: bytes on the wire, bytes delivered
  qs,     \* queryServerFullStats: closure variables, socket, promise
  mg,     \* merge harness: status sample, Query names, merged sample
  req,    \* queryServerStatus and the /api/status handler
  clock   \* time in milliseconds since the session started

vars == <<vi, tcp, net, qs, mg, req, clock>>

\* The variables an action of one component leaves alone.
notCodec == <<tcp, net, qs, mg, req, clock>>
notTcp == <<vi, qs, mg, req>>
notQuery == <<vi, tcp, net, mg, req>>
notMerge == <<vi, tcp, net, qs, req, clock>>
notClock == <<vi, tcp, net, qs, mg, req>>

(***************************************************************************)
(* 32-bit integer arithmetic of the JavaScript bitwise operators           *)
(***************************************************************************)
RECURSIVE Pow2(_)
Pow2(n) == IF n = 0 THEN 1 ELSE 2 * Pow2(n - 1)

\* A JavaScript number in [0, 2^32-1] as two 16-bit limbs.
NumOf(n) == [hi |-> n \div 65536, lo |-> n % 65536]

\* ToInt32 of a number in [0, 2^32-1] (the conversion `&` applies to its operands).
ToInt32(num) ==
  IF num.hi >= 32768 THEN (num.hi - 65536) * 65536 + num.lo
  ELSE num.hi * 65536 + num.lo

\* a === b for an int32 a and a number b in [0, 2^32-1].
NumEq(a, num) == num.hi < 32768 /\ a = num.hi * 65536 + num.lo

\* x << s on int32, for 0 <= x < 2^31 and 0 <= s < 32: bits shifted past bit 31 are
\* dropped and bit 31 is the sign.
ShlInt32(x, s) ==
  IF s = 0 THEN x
  ELSE LET m == Pow2(32 - s)
           y == x % m
       IN  IF y >= Pow2(31 - s) THEN (y - m) * Pow2(s) ELSE y * Pow2(s)

\* a | b on int32 (two's complement, by floor division).
RECURSIVE BitOr32(_, _)
BitOr32(a, b) ==
  IF a = 0 THEN b
  ELSE IF b = 0 THEN a
  ELSE IF a = -1 \/ b = -1 THEN -1
  ELSE (IF a % 2 = 1 \/ b % 2 = 1 THEN 1 ELSE 0) + 2 * BitOr32(a \div 2, b \div 2)

\* value >>> 7 for an int32 value: the shift acts on ToUint32(value).
Ushr7(value) ==
  IF value >= 0 THEN value \div 128 ELSE (value \div 128) + 33554432

(***************************************************************************)
(* writeVarInt / writeString                                               *)
(***************************************************************************)
\* (value & 0x7F) | 0x80 without the continuation bit: a plausible slip.
VarIntGroupNoContinuation(value) == value % 128

\* (value & 0x7F) | 0x80
VarIntGroup(value) == (value % 128) + 128

\* The loop of writeVarInt on the int32 view of value: (value & ~0x7F) === 0 holds
\* exactly when that view is in 0..127.
RECURSIVE WriteVarIntLoop(_)
WriteVarIntLoop(value) ==
  IF value >= 0 /\ value <= 127 THEN <<value>>
  ELSE <<VarIntGroup(value)>> \o WriteVarIntLoop(Ushr7(value))

writeVarInt(num) == WriteVarIntLoop(ToInt32(num))

(***************************************************************************)
(* readVarInt: the result is [kind, value, offset]; kind "null" is the     *)
(* `return null` after the loop, kind "throw" is 'VarInt too large'.       *)
(***************************************************************************)
RECURSIVE ReadVarIntLoop(_, _, _, _)
ReadVarIntLoop(buffer, offset, value, shift) ==
  IF offset < Len(buffer)
  THEN LET byte == buffer[offset + 1]
           v2   == BitOr32(value, ShlInt32(byte % 128, shift))
       IN  IF byte < 128 THEN [kind |-> "value", value |-> v2, offset |-> offset + 1]
           ELSE IF shift + 7 >= 32
                THEN [kind |-> "throw", value |-> 0, offset |-> offset + 1]
                ELSE ReadVarIntLoop(buffer, offset + 1, v2, shift + 7)
  ELSE [kind |-> "null", value |-> 0, offset |-> offset]

readVarInt(buffer, offset) == ReadVarIntLoop(buffer, offset, 0, 0)

(***************************************************************************)
(* queryServerWithModpack: the Server List Ping session                    *)
(***************************************************************************)
Null == "<null>"

\* writeString(str): VarInt length, then the UTF-8 bytes.
writeString(strBuf) == writeVarInt(NumOf(Len(strBuf))) \o strBuf

\* Buffer.concat([writeVarInt(body.length), body])
Frame(body) == writeVarInt(NumOf(Len(body))) \o body

\* The protocol version queryServerStatus passes to the session.
PROTOCOL_VERSION == 127

\* The configured host name, as UTF-8 bytes ("mc"), and the default port 25565.
HostBytes == <<109, 99>>
ServerPort == 25565

\* The handshake packet followed by the status request packet.
HandshakePacket ==
  Frame(writeVarInt(NumOf(0)) \o writeVarInt(NumOf(PROTOCOL_VERSION)) \o writeString(HostBytes)
        \o <<ServerPort \div 256, ServerPort % 256>> \o writeVarInt(NumOf(1)))

RequestPacket == Frame(writeVarInt(NumOf(0)))

\* The ping packet: id 0x01 and the 8 payload bytes.
PingPacket(payload) == Frame(writeVarInt(NumOf(1)) \o payload)

\* A faulty connect handler that also pipelines the ping.
OnConnectWritesWithPing(payload) == <<HandshakePacket, RequestPacket, PingPacket(payload)>>

\* What the connect handler writes.
OnConnectWrites(payload) == <<HandshakePacket, RequestPacket>>

\* readString: [kind, str, offset]; kind "null" is `return null`, "throw" the
\* error of readVarInt.
readString(buffer, offset) ==
  LET length == readVarInt(buffer, offset)
  IN  IF length.kind = "throw" THEN [kind |-> "throw", str |-> <<>>, offset |-> length.offset]
      ELSE IF length.kind = "null" \/ length.value < 0 \/ length.value > 32767
           THEN [kind |-> "null", str |-> <<>>, offset |-> length.offset]
      ELSE IF length.offset + length.value > Len(buffer)
           THEN [kind |-> "null", str |-> <<>>, offset |-> length.offset]
      ELSE [kind |-> "str",
            str |-> SubSeq(buffer, length.offset + 1, length.offset + length.value),
            offset |-> length.offset + length.value]

\* readInt64BE: the 8 bytes at offset, or null. A BigInt is kept as its 8 big-endian
\* bytes (readBigInt64BE is one-to-one on them).
readInt64BE(buffer, offset) ==
  IF offset + 8 > Len(buffer) THEN [kind |-> "null", value |-> <<>>, offset |-> offset]
  ELSE [kind |-> "value", value |-> SubSeq(buffer, offset + 1, offset + 8), offset |-> offset + 8]

\* JSON texts the peer may send, as UTF-8 bytes.
DocVersionA == <<123, 34, 118, 101, 114, 115, 105, 111, 110, 34, 58, 123, 34, 110, 97, 109,
                 101, 34, 58, 34, 65, 34, 125, 125>>       \* {"version":{"name":"A"}}
DocEmptyObject == <<123, 125>>                              \* {}
DocNumber == <<49>>                                         \* 1
DocNull == <<110, 117, 108, 108>>                           \* null
DocBrace == <<123>>                                         \* {   (not JSON)

\* {"players":{"online":1,"sample":[{"name":"Bob","id":"u1"}]}}
DocPlayers ==
  <<123, 34, 112, 108, 97, 121, 101, 114, 115, 34, 58, 123, 34, 111, 110, 108, 105,
    110, 101, 34, 58, 49, 44, 34, 115, 97, 109, 112, 108, 101, 34, 58, 91, 123, 34,
    110, 97, 109, 101, 34, 58, 34, 66, 111, 98, 34, 44, 34, 105, 100, 34, 58, 34, 117,
    49, 34, 125, 93, 125, 125>>

\* {"modinfo":{"modList":[null]}}
DocNullMod ==
  <<123, 34, 109, 111, 100, 105, 110, 102, 111, 34, 58, 123, 34, 109, 111, 100, 76,
    105, 115, 116, 34, 58, 91, 110, 117, 108, 108, 93, 125, 125>>

Undefined == "<undefined>"

\* a || b on values that may be null, undefined or the empty string
OrElse(a, b) == IF a \notin {Null, Undefined, ""} THEN a ELSE b

\* A sample entry is an object {name, id, uuid} (a missing field is Undefined) or a
\* string, kept in one record shape.
PlayerObject(name, id, uuid) == [kind |-> "object", name |-> name, id |-> id, uuid |-> uuid]
PlayerString(name) == [kind |-> "string", name |-> name, id |-> Undefined, uuid |-> Undefined]

\* An entry of a mod list: {modId, id, version}, a missing field is Undefined.
Mod(modId, id, version) == [modId |-> modId, id |-> id, version |-> version]

\* A null entry of a mod list; the objects of the model have no null field.
NullMod == Mod(Null, Null, Null)

\* A parsed JSON value, as far as the session reads it: version.name,
\* players.online, players.max, players.sample.
\* storedResponse.modinfo: {type, modList} or absent (present = FALSE).
ModInfo(type, modList) == [present |-> TRUE, type |-> type, modList |-> modList]
NoModInfo == [present |-> FALSE, type |-> Undefined, modList |-> <<>>]

JsonValue(type, versionName, online, max, sample) ==
  [type |-> type, versionName |-> versionName, playersOnline |-> online,
   playersMax |-> max, sample |-> sample,
   isModded |-> FALSE, modinfo |-> NoModInfo, description |-> Undefined]

NoResponse == JsonValue("none", Undefined, 0, 0, <<>>)

\* JSON.parse on those texts: [ok, value]; ok = FALSE is a SyntaxError.
JsonParse(str) ==
  IF str = DocVersionA
    THEN [ok |-> TRUE, value |-> JsonValue("object", "A", 0, 0, <<>>)]
  ELSE IF str = DocPlayers
    THEN [ok |-> TRUE,
          value |-> JsonValue("object", Undefined, 1, 0, <<PlayerObject("Bob", "u1", Undefined)>>)]
  ELSE IF str = DocEmptyObject
    THEN [ok |-> TRUE, value |-> JsonValue("object", Undefined, 0, 0, <<>>)]
  ELSE IF str = DocNumber
    THEN [ok |-> TRUE, value |-> JsonValue("number", Undefined, 0, 0, <<>>)]
  ELSE IF str = DocNull
    THEN [ok |-> TRUE, value |-> JsonValue("null", Undefined, 0, 0, <<>>)]
  ELSE IF str = DocNullMod
    THEN [ok |-> TRUE,
          value |-> [JsonValue("object", Undefined, 0, 0, <<>>)
                       EXCEPT !.modinfo = ModInfo(Undefined, <<NullMod>>)]]
  ELSE [ok |-> FALSE, value |-> NoResponse]

\* The message of the TypeError of a property read on null.
NullReadMessage == "Cannot read properties of null (reading 'modId')"

\* The words the catch of the data handler looks for in error.message.
IncludesIncompleteWord(message) == message \in {NullReadMessage}

\* `let pingStart = null` and `let payloadValue = null`: no time, no bytes.
NullTime == -1
NullPayload == <<>>

\* modpackInfo = null
\* modCount is a number, 'Unknown' or null.
ModCountUnknown == -2
ModCountNull == -1

\* A modpack object {type, modCount, name, version, projectID, mods} or null
\* (present = FALSE). A field the object does not carry reads as null.
NoModpack ==
  [present |-> FALSE, type |-> Null, modCount |-> ModCountNull, name |-> Null,
   version |-> Null, projectID |-> Null, mods |-> <<>>]

NoResult ==
  [version |-> Null, playersOnline |-> 0, playersMax |-> 0, sample |-> <<>>,
   latency |-> 0, modpack |-> NoModpack]

\* The closure of one queryServerWithModpack call before socket.connect.
NewSession(payload) ==
  [socket |-> "connecting", promise |-> "pending", error |-> Null, result |-> NoResult,
   storedResponse |-> NoResponse, hasResponse |-> FALSE,
   pingStart |-> NullTime, payload |-> payload, payloadValue |-> NullPayload,
   buffer |-> <<>>, gotStatus |-> FALSE, written |-> <<>>, lastActivity |-> 0]

\* resolve / reject settle the promise once.
Resolve(s, result) ==
  IF s.promise = "pending" THEN [s EXCEPT !.promise = "resolved", !.result = result] ELSE s

Reject(s, message) ==
  IF s.promise = "pending" THEN [s EXCEPT !.promise = "rejected", !.error = message] ELSE s

\* socket.destroy()
Destroy(s) == [s EXCEPT !.socket = "destroyed"]

\* socket.write(packet): the bytes go out and the idle timer restarts.
Write(s, packet, now) == [s EXCEPT !.written = Append(@, packet), !.lastActivity = now]

\* The catch of the data handler, swallowing every error.
CatchDataSwallows(s, message) == s

\* The catch of the data handler.
CatchData(s, message) ==
  IF IncludesIncompleteWord(message) THEN s ELSE Reject(Destroy(s), message)

\* storedResponse.version?.name || 'Unknown', wrongly the constant.
VersionUnknown(stored) == "Unknown"

\* storedResponse.version?.name || 'Unknown'
VersionOf(stored) ==
  IF stored.versionName \in {Undefined, ""} THEN "Unknown" ELSE stored.versionName

\* mod.modId, firstMod.modId: TypeError on a null entry, in the for loop over
\* modList.slice(0, 10) or in the map over modList.slice(0, 15).
NullModRead(stored) ==
  /\ stored.modinfo.present \/ stored.isModded
  /\ \E i \in 1..Len(stored.modinfo.modList) : i <= 15 /\ stored.modinfo.modList[i] = NullMod

\* (mod.modId || mod.id || '').toLowerCase() on the ids of the model.
ToLowerCase(text) ==
  CASE text = "CorePack" -> "corepack"
    [] text = "JEI" -> "jei"
    [] OTHER -> text

\* modId.includes('pack') || modId.includes('modpack') || modId.includes('core')
IncludesPackWord(modId) == modId \in {"atm-pack", "corepack"}

\* The first of modList.slice(0, 10) whose id names a pack (0: none).
RECURSIVE FindPackMod(_, _)
FindPackMod(modList, i) ==
  IF i > Len(modList) \/ i > 10 THEN 0
  ELSE IF IncludesPackWord(ToLowerCase(OrElse(modList[i].modId, OrElse(modList[i].id, ""))))
       THEN i
  ELSE FindPackMod(modList, i + 1)

\* descText.match(/([A-Za-z0-9\s]+)\s*(?:v|version)?\s*([0-9.]+)/i) on the
\* descriptions of the model: the name group is greedy and takes "v1" with it.
DescriptionMatch(desc) ==
  IF desc = "ATM10 v1.2" THEN [ok |-> TRUE, name |-> "ATM10 v1", version |-> ".2"]
  ELSE [ok |-> FALSE, name |-> Null, version |-> Null]

\* modList.slice(0, 15).map(mod => ({id: ..., version: ...}))
ModsOf(modList) ==
  [i \in 1..(IF Len(modList) < 15 THEN Len(modList) ELSE 15) |->
     [id |-> OrElse(modList[i].modId, OrElse(modList[i].id, "unknown")),
      version |-> OrElse(modList[i].version, "unknown")]]

\* modpackInfo as the pong branch derives it from storedResponse.
ModpackOf(stored) ==
  LET modInfo == stored.modinfo
      modList == modInfo.modList
      pack == FindPackMod(modList, 1)
      byId == IF pack > 0
              THEN [name |-> ToLowerCase(OrElse(modList[pack].modId, modList[pack].id)),
                    version |-> OrElse(modList[pack].version, Null)]
              ELSE IF Len(modList) > 0
              THEN [name |-> OrElse(modList[1].modId, OrElse(modList[1].id, "Unknown Modpack")),
                    version |-> Null]
              ELSE [name |-> Null, version |-> Null]
      match == DescriptionMatch(stored.description)
      named == IF stored.description # Undefined /\ match.ok /\ byId.name = Null
               THEN [name |-> match.name, version |-> OrElse(match.version, byId.version)]
               ELSE byId
  IN  IF ~(modInfo.present \/ stored.isModded) THEN NoModpack
      ELSE IF ~(Len(modList) > 0 \/ stored.isModded) THEN NoModpack
      ELSE [present |-> TRUE,
            type |-> OrElse(modInfo.type, "NEOFORGE"),
            modCount |-> IF Len(modList) > 0 THEN Len(modList) ELSE ModCountUnknown,
            name |-> OrElse(named.name, IF stored.isModded THEN "Modded Server" ELSE "Unknown"),
            version |-> OrElse(named.version, Null),
            projectID |-> Null,
            mods |-> ModsOf(modList)]

\* The argument of resolve().
BuildResult(stored, latency) ==
  [version |-> VersionOf(stored),
   playersOnline |-> stored.playersOnline,
   playersMax |-> stored.playersMax,
   sample |-> stored.sample,
   latency |-> latency,
   modpack |-> ModpackOf(stored)]

\* receivedPayload !== null && receivedPayload === sentPayload, wrongly always true.
PayloadAccepted(received, sent) == TRUE

\* receivedPayload !== null && receivedPayload === sentPayload
PayloadMatches(received, sent) == received.kind = "value" /\ received.value = sent

\* buffer = data, losing what was buffered: a plausible slip.
ReplaceBuffer(buffer, data) == data

\* buffer = Buffer.concat([buffer, data])
AppendChunk(buffer, data) == buffer \o data

\* The status branch once JSON.parse has been attempted on a non-empty jsonStr.
OnStatusJson(s, jsonStr, now) ==
  LET parsed == JsonParse(jsonStr)
  IN  IF ~parsed.ok THEN Reject(Destroy(s), "Failed to parse JSON")
      ELSE LET s1 == [s EXCEPT !.storedResponse = parsed.value, !.hasResponse = TRUE]
           IN  IF parsed.value.type = "null"
               THEN \* Object.keys(null) throws inside the inner try
                    Reject(Destroy(s1), "Failed to parse JSON")
               ELSE LET s2 == [s1 EXCEPT !.gotStatus = TRUE, !.pingStart = now,
                                         !.payloadValue = s.payload]
                        s3 == Write(s2, PingPacket(s2.payloadValue), now)
                    IN  [s3 EXCEPT !.buffer = <<>>]

\* The branch `if (!gotStatus)` of the data handler.
OnStatusData(s, now) ==
  LET buffer == s.buffer
      packetLength == readVarInt(buffer, 0)
  IN  IF Len(buffer) < 1 THEN s
      ELSE IF packetLength.kind = "throw" THEN CatchData(s, "VarInt too large")
      ELSE IF packetLength.kind = "null" \/ packetLength.value < 0 THEN s
      ELSE IF Len(buffer) < packetLength.offset + packetLength.value THEN s
      ELSE LET packetId == readVarInt(buffer, packetLength.offset)
           IN  IF packetId.kind = "throw" THEN CatchData(s, "VarInt too large")
               ELSE IF packetId.kind = "value" /\ packetId.value = 0
               THEN LET jsonStr == readString(buffer, packetId.offset)
                    IN  IF jsonStr.kind = "throw" THEN CatchData(s, "VarInt too large")
                        ELSE IF jsonStr.kind = "str" /\ jsonStr.str # <<>>
                             THEN OnStatusJson(s, jsonStr.str, now)
                             ELSE s
               ELSE Reject(Destroy(s), "Unexpected packet ID")

\* The pong branch, giving up when the packet is not complete yet.
OnPongDataRejectsShort(s, now) ==
  LET buffer == s.buffer
      packetLength == readVarInt(buffer, 0)
  IN  IF Len(buffer) < 1 THEN s
      ELSE IF packetLength.kind = "throw" THEN CatchData(s, "VarInt too large")
      ELSE IF packetLength.kind = "null" \/ packetLength.value < 0 THEN s
      ELSE IF Len(buffer) < packetLength.offset + packetLength.value
           THEN Reject(Destroy(s), "Incomplete packet")
      ELSE LET packetId == readVarInt(buffer, packetLength.offset)
           IN  IF packetId.kind = "throw" THEN CatchData(s, "VarInt too large")
               ELSE IF packetId.kind = "value" /\ packetId.value = 1
               THEN LET receivedPayload == readInt64BE(buffer, packetId.offset)
                    IN  IF PayloadMatches(receivedPayload, s.payloadValue)
                        THEN IF NullModRead(s.storedResponse)
                             THEN CatchData(Destroy(s), NullReadMessage)
                             ELSE Resolve(Destroy(s), BuildResult(s.storedResponse, now - s.pingStart))
                        ELSE Reject(Destroy(s), "Ping payload mismatch")
               ELSE s

\* The branch `else if (pingStart !== null)` of the data handler.
OnPongData(s, now) ==
  LET buffer == s.buffer
      packetLength == readVarInt(buffer, 0)
  IN  IF Len(buffer) < 1 THEN s
      ELSE IF packetLength.kind = "throw" THEN CatchData(s, "VarInt too large")
      ELSE IF packetLength.kind = "null" \/ packetLength.value < 0 THEN s
      ELSE IF Len(buffer) < packetLength.offset + packetLength.value THEN s
      ELSE LET packetId == readVarInt(buffer, packetLength.offset)
           IN  IF packetId.kind = "throw" THEN CatchData(s, "VarInt too large")
               ELSE IF packetId.kind = "value" /\ packetId.value = 1
               THEN LET receivedPayload == readInt64BE(buffer, packetId.offset)
                    IN  IF PayloadMatches(receivedPayload, s.payloadValue)
                        THEN IF NullModRead(s.storedResponse)
                             THEN CatchData(Destroy(s), NullReadMessage)
                             ELSE Resolve(Destroy(s), BuildResult(s.storedResponse, now - s.pingStart))
                        ELSE Reject(Destroy(s), "Ping payload mismatch")
               ELSE s

\* socket.on('data'): the whole handler, for one chunk arriving at time now.
OnData(s, data, now) ==
  LET s1 == [s EXCEPT !.buffer = AppendChunk(@, data), !.lastActivity = now]
  IN  IF ~s1.gotStatus THEN OnStatusData(s1, now)
      ELSE IF s1.pingStart # NullTime THEN OnPongData(s1, now)
      ELSE s1

(***************************************************************************)
(* queryServerFullStats: the UDP Query session                             *)
(***************************************************************************)
\* The default of the timeout parameter.
QUERY_TIMEOUT == 5000

\* Buffer.alloc(15) for the full-stats request.
FULL_STATS_REQUEST_SIZE == 15

\* The four big-endian bytes of an int32 n >= 0.
Int32BE(n) == <<(n \div 16777216) % 256, (n \div 65536) % 256, (n \div 256) % 256, n % 256>>

\* msg.readInt32BE(offset): [ok, value]; ok = FALSE is the RangeError of a read past
\* the end of the datagram.
readInt32BE(msg, offset) ==
  IF offset + 4 > Len(msg) THEN [ok |-> FALSE, value |-> 0]
  ELSE [ok |-> TRUE,
        value |-> (IF msg[offset + 1] >= 128 THEN msg[offset + 1] - 256 ELSE msg[offset + 1])
                    * 16777216
                  + msg[offset + 2] * 65536 + msg[offset + 3] * 256 + msg[offset + 4]]

\* buf.writeInt32BE(value, offset): [ok, buf]; ok = FALSE is the RangeError of a
\* write past the end of the buffer.
writeInt32BE(buf, value, offset) ==
  IF offset + 4 > Len(buf) THEN [ok |-> FALSE, buf |-> buf]
  ELSE [ok |-> TRUE,
        buf |-> [i \in 1..Len(buf) |->
                   IF i > offset /\ i <= offset + 4 THEN Int32BE(value)[i - offset] ELSE buf[i]]]

\* Buffer.alloc(n)
BufferAlloc(n) == [i \in 1..n |-> 0]

\* data.indexOf(0, pos): the first index >= pos holding 0, or -1.
RECURSIVE IndexOfZero(_, _)
IndexOfZero(data, pos) ==
  IF pos >= Len(data) THEN -1
  ELSE IF data[pos + 1] = 0 THEN pos
  ELSE IndexOfZero(data, pos + 1)

\* data.slice(from, to)
Slice(data, from, to) == SubSeq(data, from + 1, to)

\* parseKeyValuePairs: [result, offset]; result is the sequence of <<key, value>>
\* assignments made to the result object, in order.
RECURSIVE ParseKeyValueLoop(_, _, _)
ParseKeyValueLoop(data, pos, result) ==
  IF pos < Len(data) /\ data[pos + 1] # 0
  THEN LET keyEnd == IndexOfZero(data, pos)
       IN  IF keyEnd = -1 THEN [result |-> result, offset |-> pos]
           ELSE LET key == Slice(data, pos, keyEnd)
                    pos2 == keyEnd + 1
                IN  IF pos2 >= Len(data) \/ data[pos2 + 1] = 0
                    THEN [result |-> result, offset |-> pos2]
                    ELSE LET valueEnd == IndexOfZero(data, pos2)
                         IN  IF valueEnd = -1 THEN [result |-> result, offset |-> pos2]
                             ELSE ParseKeyValueLoop(data, valueEnd + 1,
                                    Append(result, <<key, Slice(data, pos2, valueEnd)>>))
  ELSE [result |-> result, offset |-> pos]

parseKeyValuePairs(data, offset) == ParseKeyValueLoop(data, offset, <<>>)

\* The loop that reads the player names.
RECURSIVE ParsePlayersLoop(_, _, _)
ParsePlayersLoop(msg, offset, playersList) ==
  IF offset < Len(msg)
  THEN IF msg[offset + 1] = 0 THEN playersList
       ELSE LET playerEnd == IndexOfZero(msg, offset)
            IN  IF playerEnd = -1 THEN playersList
                ELSE ParsePlayersLoop(msg, playerEnd + 1,
                                      Append(playersList, Slice(msg, offset, playerEnd)))
  ELSE playersList

\* serverInfo[key] || null: the last value assigned to key; <<>> stands for null.
RECURSIVE Lookup(_, _)
Lookup(result, key) ==
  IF result = <<>> THEN <<>>
  ELSE IF result[Len(result)][1] = key THEN result[Len(result)][2]
  ELSE Lookup(SubSeq(result, 1, Len(result) - 1), key)

\* parseInt(text) || 0 for a text of ASCII bytes: its leading decimal digits.
RECURSIVE ParseIntLoop(_, _, _)
ParseIntLoop(text, i, acc) ==
  IF i <= Len(text) /\ text[i] >= 48 /\ text[i] <= 57
  THEN ParseIntLoop(text, i + 1, acc * 10 + (text[i] - 48))
  ELSE acc

ParseIntOrZero(text) == ParseIntLoop(text, 1, 0)

\* The property names of serverInfo, as bytes.
Key ==
  [hostname |-> <<104, 111, 115, 116, 110, 97, 109, 101>>,
   gametype |-> <<103, 97, 109, 101, 116, 121, 112, 101>>,
   game_id |-> <<103, 97, 109, 101, 95, 105, 100>>,
   version |-> <<118, 101, 114, 115, 105, 111, 110>>,
   plugins |-> <<112, 108, 117, 103, 105, 110, 115>>,
   map |-> <<109, 97, 112>>,
   numplayers |-> <<110, 117, 109, 112, 108, 97, 121, 101, 114, 115>>,
   maxplayers |-> <<109, 97, 120, 112, 108, 97, 121, 101, 114, 115>>,
   hostport |-> <<104, 111, 115, 116, 112, 111, 114, 116>>,
   hostip |-> <<104, 111, 115, 116, 105, 112>>]

\* The object passed to resolve() for a full-stats reply.
FullStatsResult(msg) ==
  LET kv == parseKeyValuePairs(msg, 16)
      serverInfo == kv.result
      offset == IF kv.offset < Len(msg) /\ msg[kv.offset + 1] = 0
                THEN kv.offset + 1 ELSE kv.offset
  IN  [hostname |-> Lookup(serverInfo, Key.hostname),
       gametype |-> Lookup(serverInfo, Key.gametype),
       game_id |-> Lookup(serverInfo, Key.game_id),
       version |-> Lookup(serverInfo, Key.version),
       plugins |-> Lookup(serverInfo, Key.plugins),
       map |-> Lookup(serverInfo, Key.map),
       numplayers |-> ParseIntOrZero(Lookup(serverInfo, Key.numplayers)),
       maxplayers |-> ParseIntOrZero(Lookup(serverInfo, Key.maxplayers)),
       hostport |-> Lookup(serverInfo, Key.hostport),
       hostip |-> Lookup(serverInfo, Key.hostip),
       players |-> ParsePlayersLoop(msg, offset, <<>>)]

NoQueryResult ==
  [hostname |-> <<>>, gametype |-> <<>>, game_id |-> <<>>, version |-> <<>>,
   plugins |-> <<>>, map |-> <<>>, numplayers |-> 0, maxplayers |-> 0,
   hostport |-> <<>>, hostip |-> <<>>, players |-> <<>>]

\* The handshake datagram: type 9, sessionId, one padding byte (Buffer.alloc(9)).
HandshakeDatagram(sessionId) == Int32BE(9) \o Int32BE(sessionId) \o <<0>>

\* The closure of one queryServerFullStats call once the executor has run: the
\* timeout is armed and the handshake has been handed to client.send.
NewQuerySession(sessionId) ==
  [sessionId |-> sessionId, handshakeReceived |-> FALSE, timerArmed |-> TRUE,
   socket |-> "open", promise |-> "pending", error |-> Null, result |-> NoQueryResult,
   sent |-> <<HandshakeDatagram(sessionId)>>, handled |-> <<>>]

\* client.close()
QClose(q) == [q EXCEPT !.socket = "closed"]

QReject(q, message) ==
  IF q.promise = "pending" THEN [q EXCEPT !.promise = "rejected", !.error = message] ELSE q

QResolve(q, result) ==
  IF q.promise = "pending" THEN [q EXCEPT !.promise = "resolved", !.result = result] ELSE q

\* The catch of the message handler.
QCatch(q) == QReject(QClose(q), "ERR_OUT_OF_RANGE")

\* The full-stats request as the handler builds it: [ok, buf]; ok = FALSE when one of
\* the four writeInt32BE calls throws.
FullStatsRequest(sessionId, challengeToken) ==
  LET w1 == writeInt32BE(BufferAlloc(FULL_STATS_REQUEST_SIZE), 0, 0)
      w2 == writeInt32BE(w1.buf, sessionId, 4)
      w3 == writeInt32BE(w2.buf, challengeToken, 8)
      w4 == writeInt32BE(w3.buf, 0, 12)
  IN  [ok |-> w1.ok /\ w2.ok /\ w3.ok /\ w4.ok, buf |-> w4.buf]

\* sessionIdReceived !== sessionId, wrongly never true.
SessionAccepted(received, sessionId) == FALSE

\* sessionIdReceived !== sessionId
SessionMismatch(received, sessionId) == received # sessionId

\* clearTimeout(timeoutHandle) at the top of the message handler.
ClearTimeout(q) == [q EXCEPT !.timerArmed = FALSE]

\* client.on('message'): the whole handler for one datagram.
OnMessage(q, msg) ==
  LET q1 == ClearTimeout(q)
      type == readInt32BE(msg, 0)
      sessionIdReceived == readInt32BE(msg, 4)
  IN  IF ~type.ok \/ ~sessionIdReceived.ok THEN QCatch(q1)
      ELSE IF SessionMismatch(sessionIdReceived.value, q1.sessionId)
           THEN QReject(QClose(q1), "Session ID mismatch")
      ELSE IF type.value = 9 /\ ~q1.handshakeReceived
           THEN LET challengeToken == readInt32BE(msg, 8)
                IN  IF ~challengeToken.ok THEN QCatch(q1)
                    ELSE LET q2 == [q1 EXCEPT !.handshakeReceived = TRUE]
                             request == FullStatsRequest(q2.sessionId, challengeToken.value)
                         IN  IF ~request.ok THEN QCatch(q2)
                             ELSE [q2 EXCEPT !.sent = Append(@, request.buf)]
      ELSE IF type.value = 0 /\ q1.handshakeReceived
           THEN QResolve(QClose(q1), FullStatsResult(msg))
      ELSE q1

(***************************************************************************)
(* queryServerStatus: the merge of the Query player list into the sample   *)
(***************************************************************************)
\* A value is truthy: neither undefined nor the empty string.
Truthy(value) == value \notin {Undefined, ""}

\* String(text).toLowerCase().trim() on the names of the model.
Normalize(text) ==
  CASE text \in {"Alice", "alice", " ALICE "} -> "alice"
    [] text \in {"Bob", "bob", "BOB "} -> "bob"
    [] text \in {"u1", "U1"} -> "u1"
    [] text \in {Undefined, ""} -> ""
    [] OTHER -> text

\* typeof p === 'object' && p !== null && (p.id || p.uuid)
CarriesUuid(p) == p.kind = "object" /\ (Truthy(p.id) \/ Truthy(p.uuid))

\* originalPlayerSample.some(...)
HasPlayerUuids(sample) == \E i \in 1..Len(sample) : CarriesUuid(sample[i])

\* String(p.name || p.id || '')
MapKeySource(p) == IF Truthy(p.name) THEN p.name ELSE IF Truthy(p.id) THEN p.id ELSE ""

\* The entries that playerMap.set is called for.
EntersPlayerMap(p) == p.kind = "object" /\ Normalize(MapKeySource(p)) # ""

\* playerMap.get(key) after the forEach: the last entry set under key, or none.
PlayerMapGet(sample, key) ==
  LET hits == {i \in 1..Len(sample) :
                 EntersPlayerMap(sample[i]) /\ Normalize(MapKeySource(sample[i])) = key}
  IN  IF hits = {} THEN [found |-> FALSE, entry |-> PlayerString("")]
      ELSE [found |-> TRUE, entry |-> sample[CHOOSE i \in hits : \A j \in hits : j <= i]]

\* The sample after the merge, for a non-empty Query name list.
MergeSample(sample, list) ==
  IF HasPlayerUuids(sample)
  THEN [i \in 1..Len(list) |->
          LET playerObj == PlayerMapGet(sample, Normalize(list[i]))
          IN  IF playerObj.found THEN playerObj.entry ELSE PlayerString(list[i])]
  ELSE [i \in 1..Len(list) |-> PlayerString(list[i])]

(***************************************************************************)
(* queryServerStatus and the /api/status handler                           *)
(***************************************************************************)
\* The timer raced against queryServerWithModpack.
RACE_TIMEOUT == 8000

\* latency: null
NullLatency == -1

NoQueryBlock ==
  [present |-> FALSE, map |-> Null, plugins |-> Null, gametype |-> Null,
   hostname |-> Null, hostport |-> Null]

\* What the library's queryFull resolves with, as far as queryServerStatus reads it.
QueryData(list, map, software) == [list |-> list, map |-> map, software |-> software, hostIP |-> Undefined, hostPort |-> Undefined, plugins |-> <<>>]

NoQueryData == QueryData(<<>>, Undefined, Undefined)

\* value || null
OrNull(value) == IF Truthy(value) THEN value ELSE Null

\* queryData.plugins.join(', ')
RECURSIVE JoinPlugins(_)
JoinPlugins(plugins) == IF Len(plugins) = 1 THEN plugins[1] ELSE plugins[1] \o ", " \o JoinPlugins(Tail(plugins))

\* statusResponse.query = {...} without the block's map and gametype.
QueryBlockBare(queryData) ==
  [present |-> TRUE, map |-> Null,
   plugins |-> IF Len(queryData.plugins) > 0 THEN JoinPlugins(queryData.plugins) ELSE Null,
   gametype |-> Null,
   hostname |-> OrNull(queryData.hostIP), hostport |-> OrNull(queryData.hostPort)]

\* statusResponse.query = {...}; the port is kept as text, the motd fields are left out.
QueryBlock(queryData) ==
  [present |-> TRUE, map |-> OrNull(queryData.map),
   plugins |-> IF Len(queryData.plugins) > 0 THEN JoinPlugins(queryData.plugins) ELSE Null,
   gametype |-> OrNull(queryData.software),
   hostname |-> OrNull(queryData.hostIP), hostport |-> OrNull(queryData.hostPort)]

\* One status structure, for every path of queryServerStatus and of the handler.
StatusRecord(online, error, version, playersOnline, playersMax, sample, fullList, latency, modpack, query) ==
  [online |-> online, error |-> error, version |-> version,
   playersOnline |-> playersOnline, playersMax |-> playersMax, sample |-> sample,
   fullList |-> fullList, latency |-> latency, modpack |-> modpack, query |-> query]

NoStatus ==
  StatusRecord(FALSE, Null, Null, 0, 0, <<>>, <<>>, NullLatency, NoModpack, NoQueryBlock)

\* return {online: true, ...statusResponse} with the sample left behind.
CustomResultNoSample(statusResponse) ==
  StatusRecord(TRUE, Null, statusResponse.version, statusResponse.playersOnline,
               statusResponse.playersMax, <<>>, <<>>,
               statusResponse.latency, statusResponse.modpack, NoQueryBlock)

\* return {online: true, ...statusResponse} when no Query attempt succeeded.
CustomResult(statusResponse) ==
  StatusRecord(TRUE, Null, statusResponse.version, statusResponse.playersOnline,
               statusResponse.playersMax, statusResponse.sample, <<>>,
               statusResponse.latency, statusResponse.modpack, NoQueryBlock)

\* return {online: true, ...statusResponse} after the `if (queryData)` block.
EnrichedResult(statusResponse, queryData) ==
  LET base == CustomResult(statusResponse)
      withPlayers ==
        IF Len(queryData.list) > 0
        THEN [base EXCEPT !.fullList = queryData.list,
                          !.sample = MergeSample(statusResponse.sample, queryData.list)]
        ELSE base
  IN  [withPlayers EXCEPT !.query = QueryBlock(queryData)]

\* The keys of the object that res.json serialises.
ResponseKeys(status) ==
  {"online", "version", "players", "latency", "modpack"}
    \cup (IF status.error # Null THEN {"error"} ELSE {})
    \cup (IF status.query # NoQueryBlock THEN {"query"} ELSE {})

\* What the library's status / statusLegacy resolve with; roundTripLatency is
\* NullLatency when the response has none.
LibResponse(versionName, online, max, sample, roundTripLatency) ==
  [versionName |-> versionName, playersOnline |-> online, playersMax |-> max,
   sample |-> sample, roundTripLatency |-> roundTripLatency]

\* The object returned after status(), with a query block of nulls added.
ModernResultWithQuery(response) ==
  StatusRecord(TRUE, Null, VersionOf(response), response.playersOnline, response.playersMax,
               response.sample, <<>>,
               IF response.roundTripLatency = NullLatency THEN 0 ELSE response.roundTripLatency,
               NoModpack, QueryBlock(NoQueryData))

\* The object returned after the library's status().
ModernResult(response) ==
  StatusRecord(TRUE, Null, VersionOf(response), response.playersOnline, response.playersMax,
               response.sample, <<>>,
               IF response.roundTripLatency = NullLatency THEN 0 ELSE response.roundTripLatency,
               NoModpack, NoQueryBlock)

\* The object returned after the library's statusLegacy().
LegacyResult(response, networkLatency) ==
  StatusRecord(TRUE, Null, VersionOf(response), response.playersOnline, response.playersMax,
               <<>>, <<>>, networkLatency, NoModpack, NoQueryBlock)

\* readModpackConfig(): null, or the three fields, each null when absent.
Toml(name, version, projectID) ==
  [present |-> TRUE, modpackName |-> name, modpackVersion |-> version,
   modpackProjectID |-> projectID]

NoToml == [present |-> FALSE, modpackName |-> Null, modpackVersion |-> Null,
           modpackProjectID |-> Null]

\* A file at MODPACK_CONFIG_PATH: missing, unreadable (readFileSync or toml.parse
\* throws) or parsed, with the three keys of [general] (Undefined: no such key).
ConfigFile(state, name, version, projectID) ==
  [state |-> state, modpackName |-> name, modpackVersion |-> version,
   modpackProjectID |-> projectID]

\* readModpackConfig(): null, or the three values with || null.
readModpackConfig(file) ==
  IF file.state # "parsed" THEN NoToml
  ELSE Toml(OrElse(file.modpackName, Null), OrElse(file.modpackVersion, Null),
            OrElse(file.modpackProjectID, Null))

\* The synthesized record without the name of the TOML file.
TomlModpackUnnamed(toml) ==
  [present |-> TRUE, type |-> "Unknown", modCount |-> ModCountNull,
   name |-> "Unknown", version |-> toml.modpackVersion,
   projectID |-> toml.modpackProjectID, mods |-> <<>>]

\* {type: 'Unknown', name, version, projectID, modCount: null, mods: []}
TomlModpack(toml) ==
  [present |-> TRUE, type |-> "Unknown", modCount |-> ModCountNull,
   name |-> toml.modpackName, version |-> toml.modpackVersion,
   projectID |-> toml.modpackProjectID, mods |-> <<>>]

\* The merge that leaves the version of the TOML file alone, present or not.
MergedModpackTomlVersion(modpack, toml) ==
  IF ~toml.present THEN modpack
  ELSE IF modpack.present
       THEN [modpack EXCEPT !.name = OrElse(toml.modpackName, modpack.name),
                            !.version = toml.modpackVersion,
                            !.projectID = OrElse(toml.modpackProjectID, Null)]
  ELSE IF toml.modpackName \notin {Null, ""}
       THEN TomlModpack(toml)
  ELSE modpack

\* The modpack of the response when queryServerStatus returned data.
MergedModpack(modpack, toml) ==
  IF ~toml.present THEN modpack
  ELSE IF modpack.present
       THEN [modpack EXCEPT !.name = OrElse(toml.modpackName, modpack.name),
                            !.version = OrElse(toml.modpackVersion, modpack.version),
                            !.projectID = OrElse(toml.modpackProjectID, Null)]
  ELSE IF toml.modpackName \notin {Null, ""}
       THEN TomlModpack(toml)
  ELSE modpack

\* The modpack of the offline response.
OfflineModpack(toml) ==
  IF toml.present /\ toml.modpackName \notin {Null, ""}
  THEN TomlModpack(toml)
  ELSE NoModpack

\* The catch of the handler, answering online: true by mistake.
OfflineResponseOnline(message, toml) ==
  StatusRecord(TRUE, message, Null, 0, 0, <<>>, <<>>, NullLatency, OfflineModpack(toml),
               NoQueryBlock)

\* res.json({online: false, error: error.message, ...}) in the catch of the handler.
OfflineResponse(message, toml) ==
  StatusRecord(FALSE, message, Null, 0, 0, <<>>, <<>>, NullLatency, OfflineModpack(toml),
               NoQueryBlock)

\* const queryHosts = [MINECRAFT_SERVER_HOST, '127.0.0.1', 'localhost']
QueryHosts == <<"MINECRAFT_SERVER_HOST", "127.0.0.1", "localhost">>

\* The request when queryServerStatus starts: the custom session is racing its timer.
NewRequest ==
  [pc |-> "custom", started |-> <<"custom">>, statusResponse |-> NoResult,
   customError |-> Null,
   queryHost |-> 0, queried |-> <<>>, queryOk |-> FALSE,
   legacyResponse |-> LibResponse(Undefined, 0, 0, <<>>, 0), startTime |-> 0,
   latencyFailed |-> FALSE,
   failed |-> {}, result |-> NoStatus, error |-> Null, toml |-> NoToml,
   response |-> NoStatus]

(***************************************************************************)
(* Codec harness: encode a number, then decode the bytes.                  *)
(***************************************************************************)
InputHi == {0, 1, 3, 4, 31, 32, 511, 512, 4095, 4096, 32767, 32768, 40000, 65535}
InputLo == {0, 1, 127, 128, 300, 16383, 16384, 65535}

NoRead == [kind |-> "none", value |-> 0, offset |-> 0]

NoString == [kind |-> "none", str |-> <<>>, offset |-> 0]

ViIdle == [pc |-> "idle", num |-> NumOf(0), bytes |-> <<>>, out |-> NoRead, str |-> NoString]

Encode ==
  /\ vi.pc = "input"
  /\ vi' = [vi EXCEPT !.pc = "encoded", !.bytes = writeVarInt(vi.num)]
  /\ UNCHANGED notCodec

Decode ==
  /\ vi.pc = "encoded"
  /\ vi' = [vi EXCEPT !.pc = "decoded", !.out = readVarInt(vi.bytes, 0)]
  /\ UNCHANGED notCodec

(***************************************************************************)
(* The peer of the TCP session and the session's events                    *)
(***************************************************************************)
\* The socket's idle timeout, socket.setTimeout(10000).
SOCKET_TIMEOUT == 10000

\* Granularity and horizon of the clock, in milliseconds.
TickMs == 2000
MaxTime == 12000

\* crypto.randomBytes(8)
Payloads == {<<0, 0, 0, 0, 0, 0, 0, 0>>, <<255, 1, 2, 3, 4, 5, 6, 128>>}

Docs == {DocVersionA, DocPlayers, DocEmptyObject, DocNumber, DocNull, DocBrace}

\* A framed status response: length, id 0x00, the JSON text as a string.
StatusPacket(doc) == Frame(writeVarInt(NumOf(0)) \o writeString(doc))

StatusPackets == {StatusPacket(doc) : doc \in Docs}

\* Other first transmissions: a packet with id 0x01, a length VarInt of more than
\* five bytes, a status packet whose string is empty.
WrongIdPacket == Frame(writeVarInt(NumOf(1)) \o <<7>>)
OverlongVarInt == <<255, 255, 255, 255, 255, 1>>
EmptyStringPacket == Frame(writeVarInt(NumOf(0)) \o writeString(<<>>))

\* A status packet followed at once by the first bytes of another packet.
StatusThenMore == StatusPacket(DocNumber) \o <<9, 1, 7>>

FirstTransmissions ==
  StatusPackets \cup {WrongIdPacket, OverlongVarInt, EmptyStringPacket}

\* How the peer answers the ping.
PongModes == {"echo", "wrong", "wrongId", "short", "silent"}

\* The payload with its last byte changed.
OtherPayload(payload) == [payload EXCEPT ![8] = (@ + 1) % 256]

PongReply(mode, payload) ==
  IF mode = "echo" THEN Frame(writeVarInt(NumOf(1)) \o payload)
  ELSE IF mode = "wrong" THEN Frame(writeVarInt(NumOf(1)) \o OtherPayload(payload))
  ELSE IF mode = "wrongId" THEN Frame(writeVarInt(NumOf(2)) \o payload)
  ELSE IF mode = "short" THEN Frame(writeVarInt(NumOf(1)) \o SubSeq(payload, 1, 4))
  ELSE <<>>

NewPeer(first, mode) ==
  [first |-> first, pongMode |-> mode, wire |-> first, delivered |-> 0,
   replied |-> FALSE, bytewise |-> TRUE]

\* socket.on('connect')
ConnectedSession(s, now) ==
  [s EXCEPT !.socket = "open", !.written = OnConnectWrites(s.payload), !.lastActivity = now]

PingCount(s) == Cardinality({i \in 1..Len(s.written) : s.written[i] = PingPacket(s.payload)})

TcpConnect ==
  /\ tcp.socket = "connecting"
  /\ tcp' = ConnectedSession(tcp, clock)
  /\ UNCHANGED <<notTcp, net, clock>>

\* socket.on('error'): the handler rejects; the socket is closed by the runtime.
TcpSocketError ==
  /\ tcp.socket \in {"connecting", "open"}
  /\ tcp' = [Reject(tcp, "socket error") EXCEPT !.socket = "closed"]
  /\ UNCHANGED <<notTcp, net, clock>>

\* The peer ends the connection: no handler of the session runs.
TcpPeerClose ==
  /\ tcp.socket = "open"
  /\ tcp' = [tcp EXCEPT !.socket = "closed"]
  /\ UNCHANGED <<notTcp, net, clock>>

\* socket.on('data') for the next chunk of the wire.
TcpData ==
  /\ tcp.socket = "open"
  /\ \E n \in 1..(Len(net.wire) - net.delivered) :
       /\ tcp' = OnData(tcp, SubSeq(net.wire, net.delivered + 1, net.delivered + n), clock)
       /\ net' = [net EXCEPT !.delivered = @ + n, !.bytewise = @ /\ n = 1]
  /\ UNCHANGED <<notTcp, clock>>

\* socket.on('data') when every byte the peer has written arrives as one chunk.
TcpSegment ==
  /\ tcp.socket = "open"
  /\ Len(net.wire) > net.delivered
  /\ tcp' = OnData(tcp, SubSeq(net.wire, net.delivered + 1, Len(net.wire)), clock)
  /\ net' = [net EXCEPT !.delivered = Len(net.wire), !.bytewise = FALSE]
  /\ UNCHANGED <<notTcp, clock>>

\* The peer answers the ping it has received.
ServerReply ==
  /\ PingCount(tcp) > 0
  /\ ~net.replied
  /\ net' = [net EXCEPT !.replied = TRUE, !.wire = @ \o PongReply(net.pongMode, tcp.payload)]
  /\ UNCHANGED <<notTcp, tcp, clock>>

SocketTimerDue ==
  /\ tcp.socket \in {"connecting", "open"}
  /\ clock - tcp.lastActivity >= SOCKET_TIMEOUT

\* socket.on('timeout')
TcpTimeout ==
  /\ SocketTimerDue
  /\ tcp' = Reject(Destroy(tcp), "Connection timeout")
  /\ UNCHANGED <<notTcp, net, clock>>

(***************************************************************************)
(* Events of the UDP Query session                                         *)
(***************************************************************************)
\* Math.floor(Math.random() * 2147483647)
SessionIds == {1, 2147483646}

MaxDatagrams == 2

\* A well-formed full-stats payload after the 16-byte header: map=w, then the
\* zero-length key, the separator, the player names Al and Bo, the empty name.
FullStatsBody == <<109, 97, 112, 0, 119, 0, 0, 0, 65, 108, 0, 66, 111, 0, 0>>

\* The datagrams the session may receive.
Datagrams(sessionId) ==
  LET other == IF sessionId = 1 THEN 2 ELSE 1
  IN  { Int32BE(type) \o Int32BE(sid) \o rest :
          type \in {9, 0, 5}, sid \in {sessionId, other},
          rest \in {<<>>, Int32BE(7), Int32BE(0) \o Int32BE(0) \o FullStatsBody} }
      \cup {<<0, 0>>, <<0, 0, 0, 9, 0, 0>>}

QueryIdle == [NewQuerySession(0) EXCEPT !.socket = "none", !.timerArmed = FALSE, !.sent = <<>>]

\* client.on('message')
QueryMessage ==
  /\ qs.socket = "open"
  /\ Len(qs.handled) < MaxDatagrams
  /\ \E msg \in Datagrams(qs.sessionId) :
       qs' = [OnMessage(qs, msg) EXCEPT !.handled = Append(@, msg)]
  /\ UNCHANGED <<notQuery, clock>>

\* The callback of client.send reports an error: for the handshake the timeout is
\* cleared first.
QuerySendError ==
  /\ qs.socket = "open"
  /\ qs.handled = <<>>
  /\ qs' = QReject(QClose(ClearTimeout(qs)), "send error")
  /\ UNCHANGED <<notQuery, clock>>

\* client.on('error')
QuerySocketError ==
  /\ qs.socket = "open"
  /\ qs' = QReject(QClose(ClearTimeout(qs)), "socket error")
  /\ UNCHANGED <<notQuery, clock>>

QueryTimerDue == qs.timerArmed /\ clock >= QUERY_TIMEOUT

\* The callback of setTimeout(..., timeout)
QueryTimeout ==
  /\ QueryTimerDue
  /\ qs' = [QReject(QClose(qs), "Query timeout") EXCEPT !.timerArmed = FALSE]
  /\ UNCHANGED <<notQuery, clock>>

(***************************************************************************)
(* Events of a status request                                              *)
(***************************************************************************)
\* Replies of the library's queryFull, status and statusLegacy.
QueryReplies ==
  {[QueryData(<<>>, "w", Undefined) EXCEPT !.hostIP = "10.0.0.5", !.hostPort = "25565", !.plugins = <<"Essentials", "Vault">>],
   QueryData(<<"bob", "alice">>, Undefined, "Paper")}

LibResponses ==
  {LibResponse("L", 2, 9, <<PlayerString("Alice")>>, 30), LibResponse(Undefined, 0, 0, <<>>, 0)}

Latencies == {0, 40}

Tomls == {NoToml, Toml("ATM10", Null, Null)}

RaceTimerDue == req.pc = "custom" /\ tcp.promise = "pending" /\ clock >= RACE_TIMEOUT

\* The 8000 ms timer of the race rejects first and statusLegacy is tried next.
RaceTimeoutToLegacy ==
  /\ RaceTimerDue
  /\ req' = [req EXCEPT !.pc = "legacy", !.customError = "Timeout", !.startTime = clock,
                        !.failed = @ \cup {"custom"}, !.started = Append(@, "legacy")]
  /\ UNCHANGED <<vi, tcp, net, qs, mg, clock>>

\* The 8000 ms timer of the race rejects first: the custom query has failed. The
\* session itself is not touched.
RaceTimeout ==
  /\ RaceTimerDue
  /\ req' = [req EXCEPT !.pc = "modern", !.customError = "Timeout",
                        !.failed = @ \cup {"custom"}, !.started = Append(@, "modern")]
  /\ UNCHANGED <<vi, tcp, net, qs, mg, clock>>

\* The session's promise settles first: its value becomes statusResponse and the
\* Query hosts are tried, or its error sends the request to the library.
CustomSettled ==
  /\ req.pc = "custom"
  /\ tcp.promise # "pending"
  /\ req' = IF tcp.promise = "resolved"
            THEN [req EXCEPT !.pc = "query", !.statusResponse = tcp.result, !.queryHost = 1]
            ELSE [req EXCEPT !.pc = "modern", !.customError = tcp.error,
                             !.failed = @ \cup {"custom"}, !.started = Append(@, "modern")]
  /\ UNCHANGED <<vi, tcp, net, qs, mg, clock>>

\* One pass of the queryHosts loop succeeds: break, merge, return.
QuerySucceeds ==
  /\ req.pc = "query"
  /\ \E queryData \in QueryReplies :
       req' = [req EXCEPT !.pc = "returned",
                          !.queried = Append(@, QueryHosts[req.queryHost]),
                          !.queryOk = TRUE,
                          !.result = EnrichedResult(req.statusResponse, queryData)]
  /\ UNCHANGED <<vi, tcp, net, qs, mg, clock>>

\* One pass of the queryHosts loop fails and the same host is tried again.
QueryFailsRetriesHost ==
  /\ req.pc = "query"
  /\ req' = [req EXCEPT !.queried = Append(@, QueryHosts[req.queryHost])]
  /\ UNCHANGED <<vi, tcp, net, qs, mg, clock>>

\* One pass of the queryHosts loop fails (error or the 8000 ms race): the next host
\* is tried, and after the last one the status is returned as it is.
QueryFails ==
  /\ req.pc = "query"
  /\ req' = IF req.queryHost < Len(QueryHosts)
            THEN [req EXCEPT !.queried = Append(@, QueryHosts[req.queryHost]),
                             !.queryHost = @ + 1]
            ELSE [req EXCEPT !.pc = "returned",
                             !.queried = Append(@, QueryHosts[req.queryHost]),
                             !.result = CustomResult(req.statusResponse)]
  /\ UNCHANGED <<vi, tcp, net, qs, mg, clock>>

\* The library's status() resolves.
ModernSucceeds ==
  /\ req.pc = "modern"
  /\ \E response \in LibResponses :
       req' = [req EXCEPT !.pc = "returned", !.result = ModernResult(response)]
  /\ UNCHANGED <<vi, tcp, net, qs, mg, clock>>

\* The library's status() rejects and is called once more.
ModernFailsAndRetries ==
  /\ req.pc = "modern"
  /\ req' = [req EXCEPT !.started = Append(@, "modern")]
  /\ UNCHANGED <<vi, tcp, net, qs, mg, clock>>

\* The library's status() rejects: statusLegacy is tried, startTime = Date.now().
ModernFails ==
  /\ req.pc = "modern"
  /\ req' = [req EXCEPT !.pc = "legacy", !.failed = @ \cup {"modern"}, !.startTime = clock,
                        !.started = Append(@, "legacy")]
  /\ UNCHANGED <<vi, tcp, net, qs, mg, clock>>

\* statusLegacy resolves: the latency is measured next.
LegacySucceeds ==
  /\ req.pc = "legacy"
  /\ \E response \in LibResponses :
       req' = [req EXCEPT !.pc = "latency", !.legacyResponse = response]
  /\ UNCHANGED <<vi, tcp, net, qs, mg, clock>>

\* statusLegacy rejects: queryServerStatus throws 'All connection methods failed'.
LegacyFails ==
  /\ req.pc = "legacy"
  /\ req' = [req EXCEPT !.pc = "thrown", !.failed = @ \cup {"legacy"},
                        !.error = "All connection methods failed. Last error: legacy"]
  /\ UNCHANGED <<vi, tcp, net, qs, mg, clock>>

\* measureLatency resolves.
LatencyMeasured ==
  /\ req.pc = "latency"
  /\ \E networkLatency \in Latencies :
       req' = [req EXCEPT !.pc = "returned",
                          !.result = LegacyResult(req.legacyResponse, networkLatency)]
  /\ UNCHANGED <<vi, tcp, net, qs, mg, clock>>

\* measureLatency rejects: the time since startTime is used.
LatencyFails ==
  /\ req.pc = "latency"
  /\ req' = [req EXCEPT !.pc = "returned", !.latencyFailed = TRUE,
                        !.result = LegacyResult(req.legacyResponse, clock - req.startTime)]
  /\ UNCHANGED <<vi, tcp, net, qs, mg, clock>>

\* The rest of the /api/status handler: the TOML merge and res.json.
Respond ==
  /\ req.pc \in {"returned", "thrown"}
  /\ \E toml \in Tomls :
       req' = IF req.pc = "returned"
              THEN [req EXCEPT !.pc = "responded", !.toml = toml,
                               !.response = [req.result EXCEPT
                                               !.modpack = MergedModpack(@, toml)]]
              ELSE [req EXCEPT !.pc = "responded", !.toml = toml,
                               !.response = OfflineResponse(req.error, toml)]
  /\ UNCHANGED <<vi, tcp, net, qs, mg, clock>>

(***************************************************************************)
(* Time                                                                    *)
(***************************************************************************)
\* Time passes; a timer that is due fires before time passes further.
Tick ==
  /\ clock + TickMs <= MaxTime
  /\ ~SocketTimerDue
  /\ ~QueryTimerDue
  /\ ~RaceTimerDue
  /\ clock' = clock + TickMs
  /\ UNCHANGED notClock

(***************************************************************************)
(* Specifications                                                          *)
(***************************************************************************)
TcpIdle == [NewSession(<<>>) EXCEPT !.socket = "none"]
NetIdle == NewPeer(<<>>, "silent")
MergeIdle == [pc |-> "idle", sample |-> <<>>, list |-> <<>>, merged |-> <<>>]
ReqIdle == [NewRequest EXCEPT !.pc = "idle"]

InitVarInt ==
  /\ \E h \in InputHi, l \in InputLo :
       vi = [ViIdle EXCEPT !.pc = "input", !.num = [hi |-> h, lo |-> l]]
  /\ tcp = TcpIdle
  /\ net = NetIdle
  /\ qs = QueryIdle
  /\ mg = MergeIdle
  /\ req = ReqIdle
  /\ clock = 0

NextVarInt == Encode \/ Decode

SpecVarInt == InitVarInt /\ [][NextVarInt]_vars

InitTcp ==
  /\ vi = ViIdle
  /\ \E payload \in Payloads : tcp = NewSession(payload)
  /\ \E first \in FirstTransmissions, mode \in PongModes : net = NewPeer(first, mode)
  /\ qs = QueryIdle
  /\ mg = MergeIdle
  /\ req = ReqIdle
  /\ clock = 0

NextTcp ==
  \/ TcpConnect
  \/ TcpSocketError
  \/ TcpPeerClose
  \/ TcpData
  \/ ServerReply
  \/ TcpTimeout
  \/ Tick

SpecTcp == InitTcp /\ [][NextTcp]_vars

InitQuery ==
  /\ vi = ViIdle
  /\ tcp = TcpIdle
  /\ net = NetIdle
  /\ \E sessionId \in SessionIds : qs = NewQuerySession(sessionId)
  /\ mg = MergeIdle
  /\ req = ReqIdle
  /\ clock = 0

NextQuery ==
  \/ QueryMessage
  \/ QuerySendError
  \/ QuerySocketError
  \/ QueryTimeout
  \/ Tick

SpecQuery == InitQuery /\ [][NextQuery]_vars

\* A status request: the custom session against its peer, then the Query hosts or
\* the library.
InitStatus ==
  /\ vi = ViIdle
  /\ tcp = NewSession(<<255, 1, 2, 3, 4, 5, 6, 128>>)
  /\ \E first \in FirstTransmissions, mode \in PongModes : net = NewPeer(first, mode)
  /\ qs = QueryIdle
  /\ mg = MergeIdle
  /\ req = NewRequest
  /\ clock = 0

NextStatus ==
  \/ TcpConnect
  \/ TcpSocketError
  \/ TcpPeerClose
  \/ TcpSegment
  \/ ServerReply
  \/ TcpTimeout
  \/ Tick
  \/ RaceTimeout
  \/ CustomSettled
  \/ QuerySucceeds
  \/ QueryFails
  \/ ModernSucceeds
  \/ ModernFails
  \/ LegacySucceeds
  \/ LegacyFails
  \/ LatencyMeasured
  \/ LatencyFails
  \/ Respond

SpecStatus == InitStatus /\ [][NextStatus]_vars

(***************************************************************************)
(* Merge harness                                                           *)
(***************************************************************************)
MaxSample == 2
MaxNames == 2

SampleEntries ==
  {PlayerObject(n, i, u) : n \in {"Alice", "Bob", Undefined}, i \in {Undefined, "u1"},
                           u \in {Undefined, "u2"}}
  \cup {PlayerString("Alice")}

QueryNames == {"alice", "Bob", " ALICE "}

SeqsUpTo(S, n) == UNION {[1..k -> S] : k \in 0..n}

Merge ==
  /\ mg.pc = "input"
  /\ mg' = [mg EXCEPT !.pc = "merged", !.merged = MergeSample(mg.sample, mg.list)]
  /\ UNCHANGED notMerge

InitMerge ==
  /\ vi = ViIdle
  /\ tcp = TcpIdle
  /\ net = NetIdle
  /\ qs = QueryIdle
  /\ \E sample \in SeqsUpTo(SampleEntries, MaxSample),
        list \in SeqsUpTo(QueryNames, MaxNames) \ {<<>>} :
       mg = [pc |-> "input", sample |-> sample, list |-> list, merged |-> <<>>]
  /\ req = ReqIdle
  /\ clock = 0

NextMerge == Merge

SpecMerge == InitMerge /\ [][NextMerge]_vars

(***************************************************************************)
(* C1                                                                      *)
(***************************************************************************)
\* C1 (as stated): for every v in [0, 2^32-1], readVarInt of writeVarInt(v) returns
\* exactly v and consumes exactly the encoded bytes; writeVarInt(300) = [0xAC, 0x02].
C1_RoundTripUint32 ==
  vi.pc = "decoded" =>
    /\ vi.out.kind = "value"
    /\ NumEq(vi.out.value, vi.num)
    /\ vi.out.offset = Len(vi.bytes)
    /\ (vi.num = NumOf(300) => vi.bytes = <<172, 2>>)

\* C1 (amended): the round trip is exact for v in [0, 2^31-1]; for v in
\* [2^31, 2^32-1] the decoder returns v - 2^32 (the same 32 bits read as a signed
\* integer); in both cases exactly the encoded bytes are consumed, and
\* writeVarInt(300) = [0xAC, 0x02].
C1_RoundTripInt32 ==
  vi.pc = "decoded" =>
    /\ vi.out.kind = "value"
    /\ vi.out.offset = Len(vi.bytes)
    /\ (vi.num.hi < 32768 => NumEq(vi.out.value, vi.num))
    /\ (vi.num.hi >= 32768 =>
          vi.out.value = (vi.num.hi - 65536) * 65536 + vi.num.lo)
    /\ (vi.num = NumOf(300) => vi.bytes = <<172, 2>>)

C1_Witness ==
  /\ vi.pc = "decoded"
  /\ vi.num.hi >= 32768
  /\ Len(vi.bytes) = 5
  /\ vi.out.value < 0

(***************************************************************************)
(* C2, C3, C4                                                              *)
(***************************************************************************)
\* No event other than connect and data has touched the session.
OnlyDataSoFar ==
  /\ tcp.socket \in {"open", "destroyed"}
  /\ tcp.error \notin {"Connection timeout", "socket error"}

\* C2: for a framed status packet split into chunks in any way, nothing is sent and
\* nothing but the buffer changes before the last byte, and after the last byte the
\* session is in the state the handler reaches when the packet arrives as one chunk;
\* for a JSON text that parses to a value, that is one ping sent and the parsed
\* text stored.
C2_ChunkedEqualsWhole ==
  (net.first \in StatusPackets /\ OnlyDataSoFar /\ net.delivered <= Len(net.first)) =>
    LET start == ConnectedSession(NewSession(tcp.payload), 0)
    IN  IF net.delivered < Len(net.first)
        THEN tcp = [start EXCEPT !.buffer = SubSeq(net.first, 1, net.delivered),
                                 !.lastActivity = tcp.lastActivity]
        ELSE /\ tcp = OnData(start, net.first, tcp.lastActivity)
             /\ \A doc \in Docs :
                  (net.first = StatusPacket(doc) /\ JsonParse(doc).ok
                   /\ JsonParse(doc).value.type # "null") =>
                    /\ tcp.written = <<HandshakePacket, RequestPacket, PingPacket(tcp.payload)>>
                    /\ tcp.storedResponse = JsonParse(doc).value
                    /\ tcp.gotStatus
                    /\ tcp.promise = "pending"

C2_Witness ==
  /\ net.first = StatusPacket(DocVersionA)
  /\ net.delivered = Len(net.first)
  /\ net.bytewise
  /\ tcp.gotStatus
  /\ PingCount(tcp) = 1

\* C3: once a complete pong packet (id 0x01) with a payload other than the one sent
\* has been handled, the session has failed with the payload-mismatch error and has
\* destroyed its socket; it holds no latency and is never resolved.
C3_PongMismatchFails ==
  net.pongMode = "wrong" =>
    /\ tcp.promise # "resolved"
    /\ tcp.result = NoResult
    /\ (net.replied /\ net.delivered = Len(net.wire)) =>
         /\ tcp.promise = "rejected"
         /\ tcp.error = "Ping payload mismatch"
         /\ tcp.socket = "destroyed"

C3_Witness ==
  /\ net.pongMode = "wrong"
  /\ net.replied
  /\ net.delivered = Len(net.wire)
  /\ tcp.error = "Ping payload mismatch"

\* The state of the session's state machine.
TcpState(s) ==
  IF s.promise = "resolved" THEN "Done"
  ELSE IF s.promise = "rejected" THEN "Failed"
  ELSE IF s.socket = "connecting" THEN "Connecting"
  ELSE IF ~s.gotStatus THEN "AwaitStatusResponse"
  ELSE "AwaitPongResponse"

StateOrder ==
  {<<"Connecting", "AwaitStatusResponse">>, <<"AwaitStatusResponse", "AwaitPongResponse">>,
   <<"AwaitPongResponse", "Done">>, <<"Connecting", "Failed">>,
   <<"AwaitStatusResponse", "Failed">>, <<"AwaitPongResponse", "Failed">>}

\* C4: every step keeps the state or follows Connecting -> AwaitStatusResponse ->
\* AwaitPongResponse -> Done, or fails from a non-terminal state; the ping is written
\* at most once, and only when a complete status packet has been received and parsed;
\* the session is resolved only when the ping was sent and the echoing pong received.
C4_StateOrderAndSinglePing ==
  [][ /\ \/ TcpState(tcp') = TcpState(tcp)
         \/ <<TcpState(tcp), TcpState(tcp')>> \in StateOrder
      /\ PingCount(tcp') <= 1
      /\ PingCount(tcp') = 1 =>
           /\ tcp'.hasResponse /\ tcp'.gotStatus
           /\ net'.delivered >= Len(net'.first)
           /\ \E doc \in Docs : net'.first = StatusPacket(doc) /\ JsonParse(doc).ok
           /\ tcp'.written = <<HandshakePacket, RequestPacket, PingPacket(tcp'.payload)>>
      /\ tcp'.promise = "resolved" =>
           /\ PingCount(tcp') = 1
           /\ net'.replied /\ net'.pongMode = "echo"
           /\ net'.delivered = Len(net'.wire)
    ]_vars

C4_Witness ==
  /\ tcp.promise = "resolved"
  /\ PingCount(tcp) = 1
  /\ net.pongMode = "echo"

(***************************************************************************)
(* C5, C6, C7                                                              *)
(***************************************************************************)
\* The datagram carries a sessionId field and it is not the session's.
ForeignSession(msg) == Len(msg) >= 8 /\ readInt32BE(msg, 4).value # qs.sessionId

\* C5: a datagram whose sessionId differs from the session's, of whatever type, is
\* the last one the session handles: the session is rejected with the
\* session-mismatch error, its socket is closed, nothing but the handshake was ever
\* sent and the result holds nothing of the datagram.
C5_SessionMismatchFails ==
  \A i \in 1..Len(qs.handled) :
    ForeignSession(qs.handled[i]) =>
      /\ i = Len(qs.handled)
      /\ qs.promise = "rejected"
      /\ qs.error = "Session ID mismatch"
      /\ qs.socket = "closed"
      /\ qs.sent = <<HandshakeDatagram(qs.sessionId)>>
      /\ qs.result = NoQueryResult

C5_Witness ==
  /\ Len(qs.handled) = 2
  /\ ForeignSession(qs.handled[2])
  /\ readInt32BE(qs.handled[2], 0).value = 0
  /\ qs.error = "Session ID mismatch"

\* A handshake reply: type 9, the session's sessionId, a challenge token.
IsHandshakeReply(msg) ==
  /\ Len(msg) >= 12
  /\ readInt32BE(msg, 0).value = 9
  /\ readInt32BE(msg, 4).value = qs.sessionId

IsFullStatsReply(msg) ==
  /\ Len(msg) >= 16
  /\ readInt32BE(msg, 0).value = 0
  /\ readInt32BE(msg, 4).value = qs.sessionId

\* C6: once the handshake reply has been handled the session has sent exactly one
\* full-stats request (type 0, sessionId, the reply's token, 4 zero bytes) and awaits
\* the full stats without having failed; a matching type-0 reply then resolves it.
C6_HandshakeThenFullStats ==
  /\ (Len(qs.handled) = 1 /\ IsHandshakeReply(qs.handled[1]) /\ qs.error # "socket error") =>
       /\ qs.promise = "pending"
       /\ qs.socket = "open"
       /\ qs.handshakeReceived
       /\ qs.sent = <<HandshakeDatagram(qs.sessionId),
                      Int32BE(0) \o Int32BE(qs.sessionId)
                        \o SubSeq(qs.handled[1], 9, 12) \o Int32BE(0)>>
  /\ (Len(qs.handled) = 2 /\ IsHandshakeReply(qs.handled[1])
        /\ IsFullStatsReply(qs.handled[2])) => qs.promise = "resolved"

\* C7: an attempt is never pending once its timeout has elapsed (the timer fires
\* within one tick of its deadline), and a settled attempt has closed its socket.
C7_SettlesByTimeout ==
  /\ qs.promise = "pending" => clock < QUERY_TIMEOUT + TickMs
  /\ qs.promise # "pending" => qs.socket = "closed"

(***************************************************************************)
(* C8                                                                      *)
(***************************************************************************)
\* The UUID-bearing records of the sample whose normalized name is that of the name.
UuidRecordsFor(sample, name) ==
  {sample[i] : i \in {j \in 1..Len(sample) :
                        /\ CarriesUuid(sample[j])
                        /\ Truthy(sample[j].name)
                        /\ Normalize(sample[j].name) = Normalize(name)}}

\* C8: the merged sample has one entry per Query name, in the Query's order: a
\* UUID-bearing record of the status sample with the same normalized name if there is
\* one, and the bare name otherwise; [{Alice, u1}] with ["alice", "Bob"] gives
\* [{Alice, u1}, "Bob"].
C8_MergeKeepsUuidRecords ==
  mg.pc = "merged" =>
    /\ Len(mg.merged) = Len(mg.list)
    /\ \A i \in 1..Len(mg.list) :
         IF UuidRecordsFor(mg.sample, mg.list[i]) # {}
         THEN mg.merged[i] \in UuidRecordsFor(mg.sample, mg.list[i])
         ELSE mg.merged[i] = PlayerString(mg.list[i])
    /\ MergeSample(<<PlayerObject("Alice", Undefined, "u1")>>, <<"alice", "Bob">>)
         = <<PlayerObject("Alice", Undefined, "u1"), PlayerString("Bob")>>

(***************************************************************************)
(* C9, C10                                                                 *)
(***************************************************************************)
AllMethods == {"custom", "modern", "legacy"}

\* C9: the status operation ends in a response and in nothing else: queryServerStatus
\* throws only when the custom session, status() and statusLegacy() have all failed,
\* and the response is then online:false with a non-empty error string, version null,
\* players 0/0 with an empty sample and latency null; every other response is
\* online:true and carries no error.
C9_OfflineOnlyWhenAllFail ==
  /\ req.pc = "thrown" => req.failed = AllMethods /\ req.error \notin {Null, ""}
  /\ req.pc = "returned" => req.failed # AllMethods /\ req.result.online
  /\ req.pc = "responded" =>
       IF req.failed = AllMethods
       THEN /\ req.response.online = FALSE
            /\ req.response.error \notin {Null, ""}
            /\ req.response.version = Null
            /\ req.response.playersOnline = 0
            /\ req.response.playersMax = 0
            /\ req.response.sample = <<>>
            /\ req.response.latency = NullLatency
       ELSE /\ req.response.online = TRUE
            /\ req.response.error = Null

\* The connection was refused, every fallback failed, and the handler has answered.
C9_Witness ==
  /\ req.pc = "responded"
  /\ req.customError = "socket error"
  /\ req.failed = AllMethods
  /\ ~req.response.online

\* The status JSON of the peer names a version.
NamedVersion(doc) ==
  /\ JsonParse(doc).ok
  /\ JsonParse(doc).value.type = "object"
  /\ JsonParse(doc).value.versionName \notin {Undefined, ""}

\* The session has read the status JSON and the echoed pong and has resolved before
\* the 8000 ms timer of the race.
AnsweredBeforeRace(doc) ==
  /\ net.first = StatusPacket(doc)
  /\ net.pongMode = "echo"
  /\ tcp.promise = "resolved"
  /\ tcp.lastActivity < RACE_TIMEOUT

StatusWithoutQuery ==
  /\ req.pc \in {"returned", "responded"}
  /\ "custom" \notin req.failed
  /\ ~req.queryOk

\* C11: when the TCP session succeeded and every Query attempt failed, what
\* queryServerStatus returns is online:true with the version, the player counts, the
\* sample, the latency and the modpack that the session resolved with, no full list
\* and no query block, after all three hosts have been tried.
C11_QueryFailureKeepsStatus ==
  StatusWithoutQuery =>
    /\ tcp.promise = "resolved"
    /\ req.queried = QueryHosts
    /\ req.result.online
    /\ req.result.error = Null
    /\ req.result.version = tcp.result.version
    /\ req.result.playersOnline = tcp.result.playersOnline
    /\ req.result.playersMax = tcp.result.playersMax
    /\ req.result.sample = tcp.result.sample
    /\ req.result.latency = tcp.result.latency
    /\ req.result.modpack = tcp.result.modpack
    /\ req.result.fullList = <<>>
    /\ req.result.query = NoQueryBlock

\* Such a request whose session resolved with a player sample.
C11_Witness ==
  /\ StatusWithoutQuery
  /\ req.pc = "returned"
  /\ Len(tcp.result.sample) > 0
  /\ req.result.sample = tcp.result.sample

(***************************************************************************)
(* C12                                                                     *)
(***************************************************************************)
MethodOrder == <<"custom", "modern", "legacy">>

IsPrefix(s, t) == Len(s) <= Len(t) /\ s = SubSeq(t, 1, Len(s))

EarlierMethods == {req.started[i] : i \in 1..(Len(req.started) - 1)}

\* C13: the methods are started in the order custom session, status(), statusLegacy();
\* each is started only after every earlier one has failed; queryServerStatus returns
\* as soon as one succeeds, with the later ones never started, and throws only when
\* all three have failed, with the message of the legacy failure.
C13_FixedOrderFirstSuccess ==
  /\ Len(req.started) >= 1
  /\ IsPrefix(req.started, MethodOrder)
  /\ EarlierMethods \subseteq req.failed
  /\ req.failed \subseteq EarlierMethods \cup {req.started[Len(req.started)]}
  /\ req.pc = "returned" => req.failed = EarlierMethods /\ req.result.online
  /\ req.pc = "thrown" =>
       /\ req.failed = AllMethods
       /\ req.started = MethodOrder
       /\ req.error = "All connection methods failed. Last error: legacy"
  /\ req.failed = AllMethods => req.pc \in {"thrown", "responded"}

\* statusLegacy succeeded after the custom session and status() had failed.
C13_Witness ==
  /\ req.pc = "returned"
  /\ req.started = MethodOrder
  /\ req.failed = {"custom", "modern"}
  /\ req.result.online

(***************************************************************************)
(* C14                                                                     *)
(***************************************************************************)
\* C14: once the custom status call has returned to queryServerStatus (its promise
\* settled, or the 8000 ms timer of the race gave up on it), the session's socket is
\* closed.
C14_SocketClosedOnReturn ==
  req.pc # "custom" => tcp.socket \in {"closed", "destroyed"}

(***************************************************************************)
(* C15                                                                     *)
(***************************************************************************)
\* C15: a session that is neither resolved nor rejected has not outlived the 10 s
\* counted from its start: at that point it is aborted with 'Connection timeout',
\* whatever its state, also while bytes keep arriving.
C15_AbortedAtSessionTimeout ==
  (tcp.promise = "pending" /\ tcp.socket \in {"connecting", "open"}) =>
    clock <= SOCKET_TIMEOUT

(***************************************************************************)
(* C16                                                                     *)
(***************************************************************************)
\* The strings of the model that JSON.parse does not accept, the empty one included.
InvalidJsonTexts == {doc \in Docs \cup {<<>>} : ~JsonParse(doc).ok}

\* The data handler has handled the chunk that completes the peer's first packet.
FirstPacketHandled == net.delivered >= Len(net.first)

\* C16: once the handler has seen a complete status packet whose string is not valid
\* JSON, the session is rejected with the JSON parse error and its socket destroyed,
\* with no ping written; it never resolves.
C16_MalformedJsonFails ==
  \A doc \in InvalidJsonTexts :
    (net.first = StatusPacket(doc) /\ FirstPacketHandled) =>
      /\ tcp.promise = "rejected"
      /\ tcp.error = "Failed to parse JSON"
      /\ tcp.socket = "destroyed"
      /\ PingCount(tcp) = 0

(***************************************************************************)
(* Decoder harness: a buffer of bytes is read as a VarInt, as a string, and *)
(* handed to the data handler of a connected session as its first chunk.   *)
(***************************************************************************)
MaxBufLen == 6

BufferBytes == {0, 1, 4, 128, 255}

Buffers == SeqsUpTo(BufferBytes, MaxBufLen)

DecodeVarInt ==
  /\ vi.pc = "bytes"
  /\ vi' = [vi EXCEPT !.pc = "varint", !.out = readVarInt(vi.bytes, 0)]
  /\ UNCHANGED notCodec

DecodeString ==
  /\ vi.pc = "varint"
  /\ vi' = [vi EXCEPT !.pc = "string", !.str = readString(vi.bytes, 0)]
  /\ UNCHANGED notCodec

\* socket.on('data') with the buffer as the first chunk.
SessionData ==
  /\ vi.pc = "string"
  /\ Len(vi.bytes) > 0
  /\ vi' = [vi EXCEPT !.pc = "handled"]
  /\ tcp' = OnData(tcp, vi.bytes, clock)
  /\ UNCHANGED <<net, qs, mg, req, clock>>

InitDecode ==
  /\ \E buffer \in Buffers : vi = [ViIdle EXCEPT !.pc = "bytes", !.bytes = buffer]
  /\ tcp = ConnectedSession(NewSession(<<255, 1, 2, 3, 4, 5, 6, 128>>), 0)
  /\ net = NetIdle
  /\ qs = QueryIdle
  /\ mg = MergeIdle
  /\ req = ReqIdle
  /\ clock = 0

NextDecode == DecodeVarInt \/ DecodeString \/ SessionData

SpecDecode == InitDecode /\ [][NextDecode]_vars

(***************************************************************************)
(* C17                                                                     *)
(***************************************************************************)
\* The first n bytes of the buffer all have the continuation bit set.
Continues(buffer, n) == \A i \in 1..n : buffer[i] >= 128

\* C17: readVarInt throws 'VarInt too large' exactly when the first five bytes all
\* have the continuation bit set, having consumed five bytes; it returns a value
\* exactly when a byte without the bit comes among the first five, having consumed
\* up to that byte; it returns null (need more data) exactly when fewer than five
\* bytes are there and all have the bit. In the session, the throw at the packet
\* length rejects with that error and destroys the socket, and the null leaves the
\* session waiting with the bytes buffered.
C17_VarIntTooLarge ==
  LET b == vi.bytes
      n == Len(b)
  IN  /\ vi.pc \in {"varint", "string", "handled"} =>
           /\ vi.out.kind = "throw" <=> (n >= 5 /\ Continues(b, 5))
           /\ vi.out.kind = "throw" => vi.out.offset = 5
           /\ vi.out.kind = "null" <=> (n < 5 /\ Continues(b, n))
           /\ vi.out.kind = "value" <=>
                \E k \in 1..5 : k <= n /\ b[k] < 128 /\ Continues(b, k - 1)
           /\ vi.out.kind = "value" =>
                b[vi.out.offset] < 128 /\ Continues(b, vi.out.offset - 1)
      /\ (vi.pc = "handled" /\ vi.out.kind = "throw") =>
           /\ tcp.promise = "rejected"
           /\ tcp.error = "VarInt too large"
           /\ tcp.socket = "destroyed"
      /\ (vi.pc = "handled" /\ vi.out.kind = "null") =>
           /\ tcp.promise = "pending"
           /\ tcp.socket = "open"
           /\ tcp.buffer = b

\* Five continuation bytes have failed a session.
C17_Witness ==
  /\ vi.pc = "handled"
  /\ Len(vi.bytes) >= 5
  /\ Continues(vi.bytes, 5)
  /\ vi.out.kind = "throw"
  /\ tcp.promise = "rejected"

(***************************************************************************)
(* C18                                                                     *)
(***************************************************************************)
\* A VarInt read as a string length that lies outside [0, 32767].
OutOfRange(length) == length.kind = "value" /\ (length.value < 0 \/ length.value > 32767)

\* The buffer starts with a complete framed packet with id 0x00.
CompleteStatusPacket(b) ==
  LET packetLength == readVarInt(b, 0)
  IN  /\ packetLength.kind = "value"
      /\ packetLength.value >= 0
      /\ Len(b) >= packetLength.offset + packetLength.value
      /\ readVarInt(b, packetLength.offset).kind = "value"
      /\ readVarInt(b, packetLength.offset).value = 0

\* The declared length of the string of that packet.
StatusStringLength(b) ==
  readVarInt(b, readVarInt(b, readVarInt(b, 0).offset).offset)

\* C18: readString on a declared length outside [0, 32767] raises an error instead of
\* returning null, and a session whose complete status packet declares such a length
\* is rejected with its socket destroyed instead of waiting for more data.
C18_InvalidStringLength ==
  /\ (vi.pc \in {"string", "handled"} /\ OutOfRange(readVarInt(vi.bytes, 0))) =>
       vi.str.kind = "throw"
  /\ (vi.pc = "handled" /\ CompleteStatusPacket(vi.bytes)
        /\ OutOfRange(StatusStringLength(vi.bytes))) =>
       /\ tcp.promise = "rejected"
       /\ tcp.socket = "destroyed"

(***************************************************************************)
(* Full-stats harness: the message handler is applied to one type-0 reply  *)
(* in the state its full-stats branch is written for (handshake received). *)
(***************************************************************************)
MaxPairs == 2
MaxPlayers == 2
MaxCut == 2

\* plugins="", map="w", hostname="h"
ReplyPairs == {<<Key.plugins, <<>>>>, <<Key.map, <<119>>>>, <<Key.hostname, <<104>>>>}

\* Al, Bo
ReplyNames == {<<65, 108>>, <<66, 111>>}

\* key NUL value NUL for each pair
RECURSIVE EncodePairs(_)
EncodePairs(pairs) ==
  IF pairs = <<>> THEN <<>>
  ELSE pairs[1][1] \o <<0>> \o pairs[1][2] \o <<0>> \o EncodePairs(Tail(pairs))

\* name NUL for each name
RECURSIVE EncodeNames(_)
EncodeNames(names) ==
  IF names = <<>> THEN <<>> ELSE names[1] \o <<0>> \o EncodeNames(Tail(names))

\* The stated layout: the 16-byte header, the pairs, the zero-length key, the
\* separator, the names, the empty name.
WellFormedReply(sessionId, pairs, names) ==
  Int32BE(0) \o Int32BE(sessionId) \o Int32BE(0) \o Int32BE(0)
    \o EncodePairs(pairs) \o <<0>> \o <<0>> \o EncodeNames(names) \o <<0>>

\* The reply with its last cut bytes missing.
Truncated(msg, cut) == SubSeq(msg, 1, Len(msg) - cut)

AwaitingFullStats(sessionId) ==
  [NewQuerySession(sessionId) EXCEPT !.handshakeReceived = TRUE, !.timerArmed = FALSE]

\* client.on('message') for the reply held in net.wire.
FullStatsMessage ==
  /\ qs.socket = "open"
  /\ qs.handled = <<>>
  /\ qs' = [OnMessage(qs, net.wire) EXCEPT !.handled = <<net.wire>>]
  /\ UNCHANGED <<notQuery, clock>>

InitFullStats ==
  /\ vi = ViIdle
  /\ tcp = TcpIdle
  /\ \E pairs \in SeqsUpTo(ReplyPairs, MaxPairs), names \in SeqsUpTo(ReplyNames, MaxPlayers),
        cut \in 0..MaxCut :
       net = [NetIdle EXCEPT !.wire = Truncated(WellFormedReply(1, pairs, names), cut)]
  /\ qs = AwaitingFullStats(1)
  /\ mg = MergeIdle
  /\ req = ReqIdle
  /\ clock = 0

NextFullStats == FullStatsMessage

SpecFullStats == InitFullStats /\ [][NextFullStats]_vars

(***************************************************************************)
(* C19, C20                                                                *)
(***************************************************************************)
\* The value the reply gives for key: that of its last pair with the key, and <<>>
\* (null) when there is none or the value is empty.
RECURSIVE ValueInReply(_, _)
ValueInReply(pairs, key) ==
  IF pairs = <<>> THEN <<>>
  ELSE IF pairs[Len(pairs)][1] = key THEN pairs[Len(pairs)][2]
  ELSE ValueInReply(SubSeq(pairs, 1, Len(pairs) - 1), key)

C21_QueryHostsInOrder ==
  /\ IsPrefix(req.queried, QueryHosts)
  /\ req.pc = "query" => ~req.queryOk /\ req.queryHost = Len(req.queried) + 1
  /\ req.queryOk =>
       /\ req.pc \in {"returned", "responded"}
       /\ Len(req.queried) >= 1
       /\ req.result.query # NoQueryBlock
  /\ (req.pc \in {"returned", "responded"} /\ "custom" \notin req.failed /\ ~req.queryOk) =>
       req.queried = QueryHosts

\* The second host answered after the first had failed; the third was never tried.
C21_Witness ==
  /\ req.pc = "returned"
  /\ req.queryOk
  /\ req.queried = SubSeq(QueryHosts, 1, 2)

(***************************************************************************)
(* The modpack of a status response: derived from the stored status JSON,  *)
(* then merged with what readModpackConfig read.                           *)
(***************************************************************************)

ModLists ==
  {<<>>,
   <<Mod("jei", Undefined, "15.2")>>,
   <<Mod("jei", Undefined, "15.2"), Mod("atm-pack", Undefined, "1.2")>>,
   <<Mod(Undefined, "CorePack", Undefined)>>,
   <<Mod(Undefined, Undefined, Undefined)>>}

ModInfos == {NoModInfo} \cup {ModInfo(type, modList) : type \in {"FML", Undefined}, modList \in ModLists}

Descriptions == {Undefined, "ATM10 v1.2", "A Minecraft Server"}

StoredResponses ==
  {[JsonValue("object", "A", 0, 0, <<>>) EXCEPT !.isModded = isModded, !.modinfo = modinfo,
                                                !.description = description] :
     isModded \in BOOLEAN, modinfo \in ModInfos, description \in Descriptions}

ConfigFiles ==
  {ConfigFile("missing", Undefined, Undefined, Undefined),
   ConfigFile("unreadable", Undefined, Undefined, Undefined)}
  \cup {ConfigFile("parsed", name, version, projectID) :
          name \in {Undefined, "", "ATM10"}, version \in {Undefined, "2.0"},
          projectID \in {Undefined, "925200"}}

ModpackIdle ==
  [pc |-> "idle", stored |-> NoResponse, file |-> ConfigFile("missing", Undefined, Undefined, Undefined),
   modpack |-> NoModpack, toml |-> NoToml, response |-> NoModpack]

\* queryServerWithModpack resolves with the modpack derived from storedResponse.
DeriveModpack ==
  /\ mg.pc = "stored"
  /\ mg' = [mg EXCEPT !.pc = "derived", !.modpack = ModpackOf(mg.stored)]
  /\ UNCHANGED notMerge

\* const tomlModpackInfo = readModpackConfig()
ReadConfig ==
  /\ mg.pc = "derived"
  /\ mg' = [mg EXCEPT !.pc = "read", !.toml = readModpackConfig(mg.file)]
  /\ UNCHANGED notMerge

\* The merge of the handler, up to res.json(data).
MergeConfig ==
  /\ mg.pc = "read"
  /\ mg' = [mg EXCEPT !.pc = "merged", !.response = MergedModpack(mg.modpack, mg.toml)]
  /\ UNCHANGED notMerge

InitModpack ==
  /\ vi = ViIdle
  /\ tcp = TcpIdle
  /\ net = NetIdle
  /\ qs = QueryIdle
  /\ \E stored \in StoredResponses, file \in ConfigFiles :
       mg = [ModpackIdle EXCEPT !.pc = "stored", !.stored = stored, !.file = file]
  /\ req = ReqIdle
  /\ clock = 0

NextModpack == DeriveModpack \/ ReadConfig \/ MergeConfig

SpecModpack == InitModpack /\ [][NextModpack]_vars

(***************************************************************************)
(* C22                                                                     *)
(***************************************************************************)
\* C22: when the status data carries a modpack and the TOML file was read, the name,
\* the version and the projectID of the response are each the TOML value when the
\* file has one and the value of the derived modpack otherwise; type, modCount and
\* mods are those of the derived modpack.
C22_TomlOverridesFieldByField ==
  (mg.pc = "merged" /\ mg.modpack.present /\ mg.toml.present) =>
    /\ mg.response.name =
         IF mg.toml.modpackName # Null THEN mg.toml.modpackName ELSE mg.modpack.name
    /\ mg.response.version =
         IF mg.toml.modpackVersion # Null THEN mg.toml.modpackVersion ELSE mg.modpack.version
    /\ mg.response.projectID =
         IF mg.toml.modpackProjectID # Null THEN mg.toml.modpackProjectID
         ELSE mg.modpack.projectID
    /\ mg.response.present
    /\ mg.response.type = mg.modpack.type
    /\ mg.response.modCount = mg.modpack.modCount
    /\ mg.response.mods = mg.modpack.mods

\* The TOML file names the pack and has no version; the derived modpack has version
\* 1.2 and no projectID: the response is ATM10, 1.2, null.
C22_Witness ==
  /\ mg.pc = "merged"
  /\ mg.toml = Toml("ATM10", Null, Null)
  /\ mg.modpack.present
  /\ mg.modpack.name = "atm-pack"
  /\ mg.modpack.version = "1.2"
  /\ mg.response.name = "ATM10"
  /\ mg.response.version = "1.2"
  /\ mg.response.projectID = Null

(***************************************************************************)
(* C23                                                                     *)
(***************************************************************************)
\* C23: when the status data carries no modpack and the TOML file names one, the
\* response carries the record made of the TOML name, version and projectID with an
\* empty mod list; when the file is missing or unreadable the merge still completes
\* and the response carries the derived modpack as it is.
C23_SynthesizedOrUntouched ==
  mg.pc = "merged" =>
    /\ (~mg.modpack.present /\ mg.toml.present /\ mg.toml.modpackName # Null) =>
         /\ mg.response.present
         /\ mg.response.name = mg.toml.modpackName
         /\ mg.response.version = mg.toml.modpackVersion
         /\ mg.response.projectID = mg.toml.modpackProjectID
         /\ mg.response.mods = <<>>
    /\ mg.file.state \in {"missing", "unreadable"} => mg.response = mg.modpack

\* A vanilla status answer and a TOML file with name and projectID.
C23_Witness ==
  /\ mg.pc = "merged"
  /\ ~mg.modpack.present
  /\ mg.file = ConfigFile("parsed", "ATM10", Undefined, "925200")
  /\ mg.response.present
  /\ mg.response.name = "ATM10"
  /\ mg.response.projectID = "925200"
  /\ mg.response.mods = <<>>

(***************************************************************************)
(* Latency measurement: the strategies of latency-measurement.js (three    *)
(* copies of the file are in the repository), measureLatency and the      *)
(* /api/mc-ping handler of server.js.                                      *)
(***************************************************************************)
notRequest == <<vi, tcp, net, qs, mg, clock>>

\* The copy of latency-measurement.js that is loaded: src/server ("deployed"), the
\* first of part_000 ("damped90"), the second of part_000 ("damped95").
Versions == {"deployed", "damped90", "damped95"}

\* Math.round(num / den) for num >= 0, den > 0.
RoundDiv(num, den) == (2 * num + den) \div (2 * den)

RECURSIVE Sum(_)
Sum(seq) == IF seq = <<>> THEN 0 ELSE Head(seq) + Sum(Tail(seq))

RECURSIVE Insert(_, _)
Insert(sorted, x) ==
  IF sorted = <<>> THEN <<x>>
  ELSE IF x < Head(sorted) THEN <<x>> \o sorted
  ELSE <<Head(sorted)>> \o Insert(Tail(sorted), x)

\* latencies.sort((a, b) => a - b)
RECURSIVE SortNumbers(_)
SortNumbers(seq) == IF seq = <<>> THEN <<>> ELSE Insert(SortNumbers(Tail(seq)), Head(seq))

\* latencies[Math.floor(latencies.length / 2)] of the sorted values
UpperMiddle(seq) == SortNumbers(seq)[(Len(seq) \div 2) + 1]

\* What the try blocks keep: the outcomes that are not failures, in order.
Succeeded(outcomes) == SelectSeq(outcomes, LAMBDA latency : latency # NullLatency)

\* measureViaExternalReference of src/server/latency-measurement.js: refs are the
\* outcomes of the connects to the reference servers, mc that of the target.
measureViaExternalReference(refs, mc) ==
  LET measurements == Succeeded(refs)
  IN  IF Len(measurements) = 0 THEN NullLatency
      ELSE IF mc = NullLatency THEN NullLatency
      ELSE IF mc < 10 /\ Sum(measurements) > 20 * Len(measurements)
           THEN RoundDiv(Sum(measurements), Len(measurements))
      ELSE mc

\* measureViaExternalReference of the first copy in part_000: > 15 and 90 %.
measureViaExternalReference90(refs, mc) ==
  LET measurements == Succeeded(refs)
  IN  IF Len(measurements) = 0 THEN NullLatency
      ELSE IF mc = NullLatency THEN NullLatency
      ELSE IF mc < 10 /\ Sum(measurements) > 15 * Len(measurements)
           THEN RoundDiv(9 * Sum(measurements), 10 * Len(measurements))
      ELSE mc

\* measureViaExternalReference of the second copy in part_000: the median of the
\* measurements of 10 ms and more, > 15 and 95 %.
measureViaExternalReference95(refs, mc) ==
  LET measurements == Succeeded(refs)
      externalMeasurements == SelectSeq(measurements, LAMBDA latency : latency >= 10)
  IN  IF Len(measurements) = 0 THEN NullLatency
      ELSE IF Len(externalMeasurements) = 0 THEN NullLatency
      ELSE IF mc = NullLatency THEN NullLatency
      ELSE IF mc < 10 /\ UpperMiddle(externalMeasurements) > 15
           THEN RoundDiv(95 * UpperMiddle(externalMeasurements), 100)
      ELSE mc

ExternalReferenceOf(version, refs, mc) ==
  CASE version = "deployed" -> measureViaExternalReference(refs, mc)
    [] version = "damped90" -> measureViaExternalReference90(refs, mc)
    [] version = "damped95" -> measureViaExternalReference95(refs, mc)

\* The function gets as far as the connect to the target.
ReachesTarget(version, refs) == ExternalReferenceOf(version, refs, 0) # NullLatency

\* referenceServers.length
ReferenceServers(version) == IF version = "damped95" THEN 5 ELSE 3

\* measureViaMultipleDNS: the outcomes of the three resolvers (resolve and connect).
measureViaMultipleDNS(outcomes) ==
  IF Len(Succeeded(outcomes)) = 0 THEN NullLatency ELSE UpperMiddle(Succeeded(outcomes))

\* measureViaICMP: one ping of the host (deployed, damped90), or the median of the
\* pings of four fixed hosts that took 10 ms or more (damped95).
measureViaICMP(version, outcomes) ==
  IF version = "damped95"
  THEN LET results == SelectSeq(Succeeded(outcomes), LAMBDA latency : latency >= 10)
       IN  IF Len(results) = 0 THEN NullLatency ELSE UpperMiddle(results)
  ELSE outcomes[1]

\* pingHosts.length, or the one host
PingHosts(version) == IF version = "damped95" THEN 4 ELSE 1

\* if (latency !== null) in src/server, if (latency !== null && latency > 0) in part_000
Accepted(version, latency) ==
  IF version = "deployed" THEN latency # NullLatency ELSE latency # NullLatency /\ latency > 0

NoMultiResult ==
  [present |-> FALSE, latency |-> NullLatency, average |-> NullLatency, methods |-> <<>>,
   confidence |-> Null]

\* The combination that reports the lowest of the values.
measureLatencyMultiStrategyLowest(version, refLatency, dnsLatency, icmpLatency) ==
  LET strategies ==
        SelectSeq(<<[method |-> "external_reference", latency |-> refLatency],
                    [method |-> "multiple_dns", latency |-> dnsLatency],
                    [method |-> "icmp", latency |-> icmpLatency]>>,
                  LAMBDA s : Accepted(version, s.latency))
      latencies == [i \in 1..Len(strategies) |-> strategies[i].latency]
  IN  IF Len(strategies) = 0 THEN NoMultiResult
      ELSE [present |-> TRUE,
            latency |-> SortNumbers(latencies)[1],
            average |-> RoundDiv(Sum(latencies), Len(latencies)),
            methods |-> strategies,
            confidence |-> IF Len(strategies) > 1 THEN "high" ELSE "medium"]

\* measureLatencyMultiStrategy once the three strategies have returned.
measureLatencyMultiStrategy(version, refLatency, dnsLatency, icmpLatency) ==
  LET strategies ==
        SelectSeq(<<[method |-> "external_reference", latency |-> refLatency],
                    [method |-> "multiple_dns", latency |-> dnsLatency],
                    [method |-> "icmp", latency |-> icmpLatency]>>,
                  LAMBDA s : Accepted(version, s.latency))
      latencies == [i \in 1..Len(strategies) |-> strategies[i].latency]
  IN  IF Len(strategies) = 0 THEN NoMultiResult
      ELSE [present |-> TRUE,
            latency |-> UpperMiddle(latencies),
            average |-> RoundDiv(Sum(latencies), Len(latencies)),
            methods |-> strategies,
            confidence |-> IF Len(strategies) > 1 THEN "high" ELSE "medium"]

\* An address as DNS gives it: IPv4 with its first two octets, IPv6 with its first
\* and last group.
Address(family, a, b) == [family |-> family, a |-> a, b |-> b]
NoAddress == Address(0, 0, 0)

\* isPrivateIP(ip): startsWith on the dotted text; the text of an IPv6 address
\* starts with none of the prefixes.
isPrivateIP(ip) ==
  /\ ip.family = 4
  /\ \/ ip.a = 127
     \/ ip.a = 10
     \/ ip.a = 172 /\ ip.b \in 16..31
     \/ ip.a = 192 /\ ip.b = 168
     \/ ip.a = 169 /\ ip.b = 254

\* externalIPs.filter(ip => !isPrivateIP(ip))
PublicIPs(externalIPs) == SelectSeq(externalIPs, LAMBDA ip : ~isPrivateIP(ip))

NoPingResponse ==
  [status |-> 0, latency |-> NullLatency, success |-> FALSE, warning |-> Null,
   useClientMeasurement |-> FALSE, method |-> Null, error |-> Null]

\* The choice of the /api/mc-ping handler and its res.json.
PingResponse(multiResult, directLatency) ==
  LET multi == multiResult.present /\ multiResult.latency # 0
      direct == directLatency # NullLatency /\ directLatency # 0
      chosen ==
        IF multi
        THEN IF multiResult.latency >= 10
             THEN [ok |-> TRUE, latency |-> multiResult.latency,
                   method |-> IF multiResult.confidence = "high"
                              THEN "multi-strategy (high)" ELSE "multi-strategy (medium)"]
             ELSE IF direct /\ directLatency >= 10
             THEN [ok |-> TRUE, latency |-> directLatency, method |-> "direct"]
             ELSE [ok |-> TRUE, latency |-> multiResult.latency,
                   method |-> "multi-strategy (likely internal)"]
        ELSE IF direct
        THEN [ok |-> TRUE, latency |-> directLatency, method |-> "direct"]
        ELSE [ok |-> FALSE, latency |-> NullLatency, method |-> Null]
  IN  IF ~chosen.ok
      THEN [NoPingResponse EXCEPT !.status = 500, !.error = "All measurement methods failed"]
      ELSE IF chosen.latency < 10
      THEN [NoPingResponse EXCEPT !.status = 200, !.latency = chosen.latency,
                                  !.success = TRUE, !.warning = "internal_routing",
                                  !.useClientMeasurement = TRUE, !.method = chosen.method]
      ELSE [NoPingResponse EXCEPT !.status = 200, !.latency = chosen.latency,
                                  !.success = TRUE, !.method = chosen.method]

\* A request to /api/mc-ping before the first strategy.
NewPing(version) ==
  [pc |-> "ref", version |-> version, attempted |-> <<>>, outcomes |-> <<>>,
   mcLatency |-> NullLatency, refLatency |-> NullLatency, dnsLatency |-> NullLatency,
   icmpLatency |-> NullLatency, multiResult |-> NoMultiResult,
   externalIPs |-> <<>>, socketTo |-> NoAddress, sockets |-> 0,
   directLatency |-> NullLatency, directError |-> Null, response |-> NoPingResponse]

\* Connect times and failures the environment can produce.
RefOutcomes == {NullLatency, 5, 15, 40}
TargetOutcomes == {NullLatency, 0, 3, 12}
DnsOutcomes == {NullLatency, 0, 30}
PingOutcomes == {NullLatency, 0, 8, 30}
DirectOutcomes == {0, 3, 40}

Loopback4 == Address(4, 127, 0)
Loopback6 == Address(6, 0, 1)
LinkLocal6 == Address(6, 65152, 1)
UniqueLocal6 == Address(6, 64768, 1)
Public4 == Address(4, 203, 0)
Public6 == Address(6, 8193, 1)

Resolve4Lists ==
  {<<Public4>>, <<Address(4, 10, 0), Public4>>, <<Loopback4>>, <<Address(4, 192, 168)>>,
   <<Address(4, 172, 20), Address(4, 169, 254)>>, <<Address(4, 172, 32)>>}

LookupLists ==
  {<<Loopback4, Loopback6>>, <<Loopback6, Loopback4>>, <<Public6>>, <<LinkLocal6, Public4>>,
   <<UniqueLocal6>>, <<Address(4, 172, 16)>>}

\* await measureViaExternalReference(mcHost, mcPort, timeout) and the push.
ExternalReference ==
  /\ req.pc = "ref"
  /\ \E refs \in [1..ReferenceServers(req.version) -> RefOutcomes], mc \in TargetOutcomes :
       req' = [req EXCEPT !.pc = "dns", !.attempted = Append(@, "external_reference"),
                          !.outcomes = refs,
                          !.mcLatency = IF ReachesTarget(req.version, refs) THEN mc
                                        ELSE NullLatency,
                          !.refLatency = ExternalReferenceOf(req.version, refs, mc)]
  /\ UNCHANGED notRequest

\* The second strategy is left out once the first has given a value.
MultipleDNSUnlessAnswered ==
  /\ req.pc = "dns"
  /\ \E outcomes \in [1..3 -> DnsOutcomes] :
       req' = IF Accepted(req.version, req.refLatency)
              THEN [req EXCEPT !.pc = "icmp"]
              ELSE [req EXCEPT !.pc = "icmp", !.attempted = Append(@, "multiple_dns"),
                               !.outcomes = outcomes,
                               !.dnsLatency = measureViaMultipleDNS(outcomes)]
  /\ UNCHANGED notRequest

\* await measureViaMultipleDNS(mcHost, mcPort, timeout) and the push.
MultipleDNS ==
  /\ req.pc = "dns"
  /\ \E outcomes \in [1..3 -> DnsOutcomes] :
       req' = [req EXCEPT !.pc = "icmp", !.attempted = Append(@, "multiple_dns"),
                          !.outcomes = outcomes,
                          !.dnsLatency = measureViaMultipleDNS(outcomes)]
  /\ UNCHANGED notRequest

\* await measureViaICMP(mcHost, timeout), the push and the rest of
\* measureLatencyMultiStrategy.
ICMP ==
  /\ req.pc = "icmp"
  /\ \E outcomes \in [1..PingHosts(req.version) -> PingOutcomes] :
       LET icmpLatency == measureViaICMP(req.version, outcomes)
       IN  req' = [req EXCEPT !.pc = "direct", !.attempted = Append(@, "icmp"),
                              !.outcomes = outcomes,
                              !.icmpLatency = icmpLatency,
                              !.multiResult =
                                 measureLatencyMultiStrategy(req.version, req.refLatency,
                                                             req.dnsLatency, icmpLatency)]
  /\ UNCHANGED notRequest

\* measureLatency up to socket.connect: the addresses come from the external
\* resolvers, from the system's resolve4 or, when both fail, from dns.lookup with
\* all: true; without a public address the promise is rejected and the handler answers.
DirectResolve ==
  /\ req.pc = "direct"
  /\ \E externalIPs \in Resolve4Lists \cup LookupLists \cup {<<>>} :
       LET publicIPs == PublicIPs(externalIPs)
       IN  req' = IF Len(publicIPs) = 0
                  THEN [req EXCEPT !.pc = "responded", !.externalIPs = externalIPs,
                                   !.directError =
                                      IF externalIPs = <<>> THEN "Failed to measure latency"
                                      ELSE "resolves only to private/internal IPs",
                                   !.response = PingResponse(req.multiResult, NullLatency)]
                  ELSE [req EXCEPT !.pc = "connecting", !.externalIPs = externalIPs,
                                   !.socketTo = publicIPs[1], !.sockets = @ + 1]
  /\ UNCHANGED notRequest

\* socket.on('connect') of measureLatency, then the handler answers.
DirectConnected ==
  /\ req.pc = "connecting"
  /\ \E measuredLatency \in DirectOutcomes :
       req' = [req EXCEPT !.pc = "responded", !.directLatency = measuredLatency,
                          !.response = PingResponse(req.multiResult, measuredLatency)]
  /\ UNCHANGED notRequest

\* socket.on('error') and socket.on('timeout') of measureLatency, then the handler
\* answers.
DirectFails ==
  /\ req.pc = "connecting"
  /\ \E message \in {"Connection failed", "Connection timeout"} :
       req' = [req EXCEPT !.pc = "responded", !.directError = message,
                          !.response = PingResponse(req.multiResult, NullLatency)]
  /\ UNCHANGED notRequest

InitLatency ==
  /\ vi = ViIdle
  /\ tcp = TcpIdle
  /\ net = NetIdle
  /\ qs = QueryIdle
  /\ mg = MergeIdle
  /\ \E version \in Versions : req = NewPing(version)
  /\ clock = 0

NextLatency ==
  \/ ExternalReference
  \/ MultipleDNS
  \/ ICMP
  \/ DirectResolve
  \/ DirectConnected
  \/ DirectFails

SpecLatency == InitLatency /\ [][NextLatency]_vars

(***************************************************************************)
(* C24                                                                     *)
(***************************************************************************)
\* The middle one of the reference measurements that succeeded.
ReferenceMedian(refs) == UpperMiddle(Succeeded(refs))

\* m scaled by a factor between 85 % and 100 %.
DampedValues(m) == {RoundDiv(factor * m, 100) : factor \in 85..100}

\* C24: after the external-reference strategy, when the target connected in less
\* than 10 ms and the median of the reference measurements is 15 ms or more, the
\* value the strategy returns is the reference median scaled down, not the time of
\* the target.
C24_InternalRoutingFromFifteen ==
  (/\ req.pc = "dns"
   /\ req.mcLatency # NullLatency
   /\ req.mcLatency < 10
   /\ ReferenceMedian(req.outcomes) >= 15) =>
    req.refLatency \in DampedValues(ReferenceMedian(req.outcomes))

(***************************************************************************)
(* C25                                                                     *)
(***************************************************************************)
\* C25: with the target at 3 ms and a reference median of 40 ms the
\* external-reference strategy returns a value between 34 and 38.
C25_ThreeAgainstForty ==
  (/\ req.pc = "dns"
   /\ req.mcLatency = 3
   /\ ReferenceMedian(req.outcomes) = 40) =>
    req.refLatency \in 34..38

(***************************************************************************)
(* C26                                                                     *)
(***************************************************************************)
StrategyOrder == <<"external_reference", "multiple_dns", "icmp">>

\* A value the combination keeps: not null, and in the copies of part_000 not 0.
Kept(version, latency) == latency # NullLatency /\ (version = "deployed" \/ latency > 0)

\* C26: the three strategies are attempted in turn whatever the earlier ones
\* returned, and once measureLatencyMultiStrategy has returned, its result is null
\* exactly when none of the three returned a value that counts.
C26_AllStrategiesAttempted ==
  /\ IsPrefix(req.attempted, StrategyOrder)
  /\ req.pc = "dns" => Len(req.attempted) = 1
  /\ req.pc = "icmp" => Len(req.attempted) = 2
  /\ req.pc \in {"direct", "connecting", "responded"} =>
       /\ req.attempted = StrategyOrder
       /\ ~req.multiResult.present <=>
            /\ ~Kept(req.version, req.refLatency)
            /\ ~Kept(req.version, req.dnsLatency)
            /\ ~Kept(req.version, req.icmpLatency)

\* The first strategy gave a value, the second was attempted and failed, the third
\* was attempted too.
C26_Witness ==
  /\ req.pc = "direct"
  /\ req.refLatency = 12
  /\ req.dnsLatency = NullLatency
  /\ req.attempted = StrategyOrder
  /\ req.multiResult.present

(***************************************************************************)
(* C27                                                                     *)
(***************************************************************************)
\* v is one of the values, at least half of them are <= v and at least half >= v.
IsMedian(v, values) ==
  /\ \E i \in 1..Len(values) : values[i] = v
  /\ 2 * Cardinality({i \in 1..Len(values) : values[i] <= v}) >= Len(values)
  /\ 2 * Cardinality({i \in 1..Len(values) : values[i] >= v}) >= Len(values)

KeptValues(r) ==
  SelectSeq(<<r.refLatency, r.dnsLatency, r.icmpLatency>>, LAMBDA v : Kept(r.version, v))

\* C27: the latency of a non-null result is a median of the values of the k
\* strategies that succeeded, and the confidence is 'high' exactly when k >= 2 and
\* 'medium' when k = 1.
C27_MedianAndConfidence ==
  (req.pc \in {"direct", "connecting", "responded"} /\ req.multiResult.present) =>
    LET values == KeptValues(req)
    IN  /\ Len(values) \in 1..3
        /\ Len(req.multiResult.methods) = Len(values)
        /\ IsMedian(req.multiResult.latency, values)
        /\ req.multiResult.confidence = "high" <=> Len(values) >= 2
        /\ Len(values) = 1 => req.multiResult.confidence = "medium"

\* Three strategies succeeded with 12, 30 and 8 ms: 12 ms with confidence high.
C27_Witness ==
  /\ req.pc = "direct"
  /\ req.refLatency = 12
  /\ req.dnsLatency = 30
  /\ req.icmpLatency = 8
  /\ req.multiResult.latency = 12
  /\ req.multiResult.confidence = "high"

(***************************************************************************)
(* C30                                                                     *)
(***************************************************************************)
\* Loopback, private-range and link-local addresses of both families.
IsInternalAddress(ip) ==
  \/ isPrivateIP(ip)
  \/ /\ ip.family = 6
     /\ \/ ip.a = 0 /\ ip.b = 1
        \/ ip.a \in 65152..65215
        \/ ip.a \in 64512..65023

\* C30: the socket of measureLatency is opened to the first resolved address that
\* is not loopback, private or link-local, and no socket is opened when every
\* resolved address is one of those.
C30_NeverConnectsInternal ==
  /\ req.socketTo # NoAddress => ~IsInternalAddress(req.socketTo)
  /\ (\A i \in 1..Len(req.externalIPs) : IsInternalAddress(req.externalIPs[i])) =>
       req.sockets = 0

(***************************************************************************)
(* C28                                                                     *)
(***************************************************************************)
\* The latency of the status result is the value measureLatency resolved with, which
\* it does only after connecting to an address that passed its public-address filter.
LatencyFromMeasureLatency ==
  /\ req.pc = "responded"
  /\ req.response.online
  /\ "legacy" \in {req.started[i] : i \in 1..Len(req.started)}
  /\ ~req.latencyFailed

\* C28: a status response whose latency was measured against a public address and is
\* below 10 ms carries a flag that marks it as suspect.
C28_LowLatencyFlagged ==
  (LatencyFromMeasureLatency /\ req.response.latency < 10) =>
    {"warning", "useClientMeasurement"} \cap ResponseKeys(req.response) # {}

(***************************************************************************)
(* C29                                                                     *)
(***************************************************************************)
\* C29: when the latency of a status request could not be measured, the latency of
\* the response is null.
C29_UnmeasuredLatencyIsNull ==
  (req.pc = "responded" /\ req.latencyFailed) => req.response.latency = NullLatency

(***************************************************************************)
(* C31                                                                     *)
(***************************************************************************)
\* The bytes do not hold a complete framed packet: the length VarInt is not
\* complete, or fewer bytes follow it than it declares.
IncompleteFrame(b) ==
  LET packetLength == readVarInt(b, 0)
  IN  \/ packetLength.kind = "null"
      \/ /\ packetLength.kind = "value"
         /\ packetLength.value >= 0
         /\ Len(b) < packetLength.offset + packetLength.value

\* The chunk a data step hands to the handler.
ChunkOfStep == SubSeq(net.wire, net.delivered + 1, net'.delivered)

\* C31: a data step after which the buffer holds no complete framed packet appends
\* the chunk to the buffer and changes nothing else of the session (no write, no
\* settlement, same state); while the status response is awaited the buffer is then
\* all the bytes received so far.
C31_IncompleteFrameOnlyBuffers ==
  /\ [][(tcp.socket = "open" /\ net'.delivered > net.delivered
           /\ IncompleteFrame(tcp.buffer \o ChunkOfStep)) =>
          tcp' = [tcp EXCEPT !.buffer = tcp.buffer \o ChunkOfStep, !.lastActivity = clock]]_vars
  /\ [](( /\ OnlyDataSoFar
          /\ tcp.socket = "open"
          /\ ~tcp.gotStatus
          /\ tcp.promise = "pending"
          /\ IncompleteFrame(SubSeq(net.wire, 1, net.delivered))) =>
          tcp.buffer = SubSeq(net.wire, 1, net.delivered))

\* Half of a pong packet has arrived in two chunks: the session still waits for the
\* pong with those bytes buffered, one ping written.
C31_Witness ==
  /\ tcp.socket = "open"
  /\ tcp.gotStatus
  /\ tcp.promise = "pending"
  /\ net.pongMode = "echo"
  /\ Len(tcp.buffer) = 5
  /\ IncompleteFrame(tcp.buffer)
  /\ tcp.written = <<HandshakePacket, RequestPacket, PingPacket(tcp.payload)>>

(***************************************************************************)
(* C32                                                                     *)
(***************************************************************************)
\* The number of bytes of the first framed packet of b.
FrameEnd(b) == readVarInt(b, 0).offset + readVarInt(b, 0).value

\* The session against a peer that sends more bytes right behind its status packet,
\* or a status whose mod list holds a null.
OddTransmissions == {StatusThenMore, StatusPacket(DocNullMod)}

InitOddPeer ==
  /\ vi = ViIdle
  /\ \E payload \in Payloads : tcp = NewSession(payload)
  /\ \E first \in OddTransmissions, mode \in PongModes : net = NewPeer(first, mode)
  /\ qs = QueryIdle
  /\ mg = MergeIdle
  /\ req = ReqIdle
  /\ clock = 0

SpecOddPeer == InitOddPeer /\ [][NextTcp]_vars

\* C32: while the session waits for the pong, its buffer holds every byte received
\* after the end of the status packet, those that came in the chunk that completed
\* the status packet included.
C32_RemainderKept ==
  (/\ OnlyDataSoFar
   /\ tcp.socket = "open"
   /\ tcp.gotStatus
   /\ tcp.promise = "pending"
   /\ CompleteStatusPacket(net.first)) =>
    tcp.buffer = SubSeq(net.wire, FrameEnd(net.first) + 1, net.delivered)

(***************************************************************************)
(* C33                                                                     *)
(***************************************************************************)
\* C33: every object of the merged sample carries a UUID: an object of the status
\* sample without one is not in the lookup, and the Query name it would have answered
\* is emitted as a bare name, also when another entry of the sample carries a UUID.
C33_OnlyUuidEntriesLookedUp ==
  mg.pc = "merged" =>
    \A i \in 1..Len(mg.merged) :
      /\ mg.merged[i].kind = "object" => CarriesUuid(mg.merged[i])
      /\ (\A j \in 1..Len(mg.sample) :
            CarriesUuid(mg.sample[j]) => Normalize(mg.sample[j].name) # Normalize(mg.list[i]))
           => mg.merged[i] = PlayerString(mg.list[i])

(***************************************************************************)
(* C34                                                                     *)
(***************************************************************************)
\* The query block that carries the map, plugins, gametype, host name and host port
\* of the Query data, null standing for what the data lacks.
CarriesQueryFields(block, queryData) ==
  /\ block.present
  /\ block.map = OrElse(queryData.map, Null)
  /\ block.gametype = OrElse(queryData.software, Null)
  /\ block.hostname = OrElse(queryData.hostIP, Null)
  /\ block.hostport = OrElse(queryData.hostPort, Null)
  /\ IF queryData.plugins = <<>> THEN block.plugins = Null ELSE block.plugins # Null

\* C34: a request whose Query attempt succeeded returns a result with a query block
\* holding the reply's map, plugins, gametype and host name and port, with or without
\* a Query player list, and with version, latency, players.online, players.max and
\* modpack exactly as the TCP session resolved them.
C34_QueryBlockAndPrimaryFields ==
  (req.queryOk /\ req.pc = "returned") =>
    /\ \E queryData \in QueryReplies :
         /\ CarriesQueryFields(req.result.query, queryData)
         /\ req.result.fullList = queryData.list
    /\ req.result.online
    /\ req.result.version = tcp.result.version
    /\ req.result.latency = tcp.result.latency
    /\ req.result.playersOnline = tcp.result.playersOnline
    /\ req.result.playersMax = tcp.result.playersMax
    /\ req.result.modpack = tcp.result.modpack

\* The Query reply had no player list and the block is there all the same.
C34_Witness ==
  /\ req.queryOk
  /\ req.pc = "returned"
  /\ req.result.fullList = <<>>
  /\ req.result.query.present
  /\ req.result.query.map = "w"
  /\ req.result.query.hostname = "10.0.0.5"
  /\ req.result.query.plugins = "Essentials, Vault"
  /\ req.result.playersOnline > 0

(***************************************************************************)
(* C35                                                                     *)
(***************************************************************************)
\* The session's socket can still connect, receive bytes, time out or write.
SessionRunning == tcp.socket \in {"connecting", "open"}

\* C35: when the request has produced its result (returned, thrown or responded), and
\* while a fallback status method is being tried after the race gave up on the TCP
\* session, the TCP session is not running.
C35_NoSessionOutlivesRequest ==
  /\ req.pc \in {"returned", "thrown", "responded"} => ~SessionRunning
  /\ (req.pc \in {"modern", "legacy"} /\ req.customError = "Timeout") => ~SessionRunning

(***************************************************************************)
(* C36                                                                     *)
(***************************************************************************)
\* The session has been handed every byte of a complete packet with an unexpected id:
\* the peer's first packet, or its answer to the ping.
UnexpectedIdHandled ==
  /\ net.delivered = Len(net.wire)
  /\ \/ net.first = WrongIdPacket
     \/ net.replied /\ net.pongMode = "wrongId"

\* C36: once a complete packet with an unexpected id has been handled, in
\* AwaitStatusResponse or in AwaitPongResponse, the socket is closed and the promise
\* rejected; the session is not left waiting with the packet in its buffer.
C36_UnexpectedIdFailsAtOnce ==
  UnexpectedIdHandled => tcp.socket = "destroyed" /\ tcp.promise = "rejected"

(***************************************************************************)
(* C37                                                                     *)
(***************************************************************************)
\* C37: a session that has destroyed its own socket has settled its promise, whatever
\* made it do so, an error thrown while the result is built after a matching pong
\* included: no state has the socket destroyed and the promise pending.
C37_DestroyedMeansSettled ==
  tcp.socket = "destroyed" => tcp.promise \in {"resolved", "rejected"}

(***************************************************************************)
(* C38                                                                     *)
(***************************************************************************)
\* C38: once the handler has been given a complete status packet with id 0x00, the
\* session has sent its ping and awaits the pong, or it has failed with its socket
\* destroyed; it is not still awaiting the status with the packet in its buffer.
C38_CompleteStatusNeverWaits ==
  (vi.pc = "handled" /\ CompleteStatusPacket(vi.bytes) /\ readVarInt(vi.bytes, 0).value >= 1) =>
    \/ tcp.gotStatus /\ PingCount(tcp) = 1
    \/ tcp.promise = "rejected" /\ tcp.socket = "destroyed"

(***************************************************************************)
(* C39                                                                     *)
(***************************************************************************)
\* C39: a Query attempt is under way or has been made only in a request whose custom
\* TCP session resolved; a request whose session failed or lost the race makes none,
\* and what it returns and answers, from status() or statusLegacy(), has no query
\* block and no Query player list.
C39_QueryOnlyAfterCustomSuccess ==
  /\ (req.pc = "query" \/ req.queried # <<>> \/ req.queryOk) =>
       /\ tcp.promise = "resolved"
       /\ req.failed = {}
       /\ req.started = <<"custom">>
  /\ "custom" \in req.failed =>
       /\ req.queried = <<>> /\ ~req.queryOk /\ req.pc # "query"
       /\ req.result.query = NoQueryBlock /\ req.result.fullList = <<>>
       /\ req.response.query = NoQueryBlock /\ req.response.fullList = <<>>

\* The session failed, status() answered, and the response has no query block.
C39_Witness ==
  /\ req.pc = "responded"
  /\ req.failed = {"custom"}
  /\ req.response.online
  /\ req.response.version = "L"
  /\ req.response.query = NoQueryBlock
  /\ req.queried = <<>>

====
